---- MODULE Spec2Model ----
(***************************************************************************)
(* A model of the job portal's client-side store, JobPortalState           *)
(* (src/unnamed/part_002, lines 1-560): the collections it owns, its        *)
(* mutation operations, the filter/sort/pagination engine and the events   *)
(* it emits.                                                               *)
(*                                                                         *)
(* Conventions.                                                            *)
(*  - A JavaScript string that the code inspects character by character    *)
(*    (toLowerCase, includes) is a sequence of one-character strings.      *)
(*    Strings that are only compared for equality are TLA+ strings.        *)
(*  - A value that may be null is a sequence of length 0 (null) or 1.      *)
(*  - An object is a record; object spread is Merge.                       *)
(*  - events holds the notifications emitted by the last operation, in     *)
(*    order; ret holds the last operation, its arguments, the message of   *)
(*    the error it threw ("" when it returned) and its return value.       *)
(***************************************************************************)
EXTENDS Integers, Sequences, FiniteSets, TLC

VARIABLES
    userRole,       \* this.userRole
    theme,          \* this.theme
    applications,   \* this.applications
    userJobs,       \* this.userJobs
    savedJobs,      \* this.savedJobs
    filters,        \* this.filters
    currentPage,    \* this.currentPage
    allJobs,        \* this.allJobs
    filteredJobs,   \* this.filteredJobs
    storage,        \* localStorage, the six keys of this.storageKeys
    storageFails,   \* localStorage.setItem throws (quota exceeded, disabled)
    now,            \* Date.now()
    nextId,         \* number of identifiers generated so far
    events,         \* notifications emitted by the last operation
    ret,            \* the last operation and its outcome
    appliedOk,      \* history: job ids applied for since the last clear/import
    exported,       \* the backup file last written from exportData(), or Null
    api,            \* the JobAPI: cache, lastFetch, requests in flight
    eventListeners  \* this.eventListeners: the registrations, oldest first

vars == <<userRole, theme, applications, userJobs, savedJobs, filters,
          currentPage, allJobs, filteredJobs, storage, storageFails, now,
          nextId, events, ret, appliedOk, exported, api, eventListeners>>

(***************************************************************************)
(* Bounds of the model.                                                    *)
(***************************************************************************)
MaxFetch == 2       \* upstream requests the client may issue in one run
MaxElapsed == 3     \* half cache windows the clock may advance in one run
MaxListeners == 2   \* listeners registered in one run
MaxGen == 2         \* identifiers the store may generate in one run
MaxNow == 1         \* ticks of the clock in one run
BigCount == 20      \* size of the large job collection

(***************************************************************************)
(* Program constants.                                                      *)
(***************************************************************************)
itemsPerPage == 9

defaultFilters ==
    [search |-> <<>>, sort |-> "newest", remoteOnly |-> FALSE,
     category |-> "", location |-> <<>>]

storageKeys ==
    {"USER_ROLE", "APPLICATIONS", "USER_JOBS", "FILTERS", "SAVED_JOBS", "THEME"}

ErrDuplicate == "You have already applied for this job"
ErrNotFound == "Job not found"
ErrInvalidRole == "Invalid role. Must be \"job_seeker\" or \"recruiter\""
\* the TypeError of undefined.toLowerCase()
ErrUndefined == "Cannot read properties of undefined (reading 'toLowerCase')"

(***************************************************************************)
(* JavaScript helpers.                                                     *)
(***************************************************************************)
Null == <<>>

\* { ...a, ...b }
Merge(a, b) ==
    [k \in (DOMAIN a) \cup (DOMAIN b) |-> IF k \in DOMAIN b THEN b[k] ELSE a[k]]

\* Array.prototype.findIndex on the id field; 0 stands for -1
FindIndex(s, id) ==
    IF \E i \in 1..Len(s) : s[i].id = id
    THEN CHOOSE i \in 1..Len(s) : s[i].id = id /\ \A k \in 1..(i - 1) : s[k].id # id
    ELSE 0

\* find(j => j.id = jobId) in place of ===: the first element, whatever its id
FindJobAssign(s, id) == IF s = <<>> THEN Null ELSE <<s[1]>>

\* Array.prototype.find on the id field: Null, or <<the first match>>
FindJob(s, id) == IF FindIndex(s, id) = 0 THEN Null ELSE <<s[FindIndex(s, id)]>>

\* Array.prototype.indexOf; 0 stands for -1
IndexOf(s, x) ==
    IF \E i \in 1..Len(s) : s[i] = x
    THEN CHOOSE i \in 1..Len(s) : s[i] = x /\ \A k \in 1..(i - 1) : s[k] # x
    ELSE 0

\* Array.prototype.splice(index, 1)
RemoveAt(s, i) == SubSeq(s, 1, i - 1) \o SubSeq(s, i + 1, Len(s))

\* String.prototype.toLowerCase, on the alphabet of the model
LowerChar(c) ==
    CASE c = "D" -> "d"
      [] c = "E" -> "e"
      [] c = "V" -> "v"
      [] c = "N" -> "n"
      [] c = "Y" -> "y"
      [] c = "S" -> "s"
      [] c = "Q" -> "q"
      [] OTHER -> c

ToLowerCase(s) == [i \in 1..Len(s) |-> LowerChar(s[i])]

\* String.prototype.includes
Includes(s, t) ==
    \E i \in 0..(Len(s) - Len(t)) : SubSeq(s, i + 1, i + Len(t)) = t

\* the identifiers `app_${Date.now()}_${random}` and
\* `user_job_${Date.now()}_${random}`: the n-th identifier generated; the
\* timestamp and random suffix are taken never to repeat
GenAppId(n) == <<"app_1", "app_2", "app_3", "app_4", "app_5", "app_6">>[n]
GenJobId(n) ==
    <<"user_job_1", "user_job_2", "user_job_3", "user_job_4", "user_job_5",
      "user_job_6">>[n]


(***************************************************************************)
(* Truthiness of the values the code tests with if (...), && and ||.       *)
(***************************************************************************)
\* a number or null: null and 0 are falsy
TruthyNum(v) == v # Null /\ v[1] # 0

(***************************************************************************)
(* localStorage through getFromStorage / saveToStorage.  A stored entry is *)
(* Null (no item under the key) or <<v>>, v being the value whose JSON     *)
(* text is stored; the values of the model are JSON-representable, so      *)
(* JSON.parse(JSON.stringify(v)) gives v back.                             *)
(***************************************************************************)
emptyStorage == [k \in storageKeys |-> Null]

\* an item whose text JSON.parse rejects
Corrupt == <<"{", "[">>

\* one unparseable item makes every read give null
GetFromStorageTogether(st, key) ==
    IF \E k \in DOMAIN st : Len(st[k]) > 1 THEN Null ELSE st[key]

\* getFromStorage(key): null for an absent item and, through the catch, for
\* one that does not parse
GetFromStorage(st, key) == IF Len(st[key]) = 1 THEN st[key] ELSE Null

\* the write is skipped
SaveToStorageSkipped(st, fails, key, data) == st

\* the entry is written although setItem fails
SaveToStorageRegardless(st, fails, key, data) == [st EXCEPT ![key] = <<data>>]

SaveToStorage(st, fails, key, data) ==
    IF fails THEN st ELSE [st EXCEPT ![key] = <<data>>]

(***************************************************************************)
(* applyFilters: four filter passes, then the sort.                        *)
(***************************************************************************)
\* the search term compared without toLowerCase
SearchPassCaseSensitive(jobs, f) ==
    IF f.search # <<>>
    THEN LET searchTerm == f.search
         IN  SelectSeq(jobs, LAMBDA job :
                 \/ Includes(ToLowerCase(job.title), searchTerm)
                 \/ Includes(ToLowerCase(job.company), searchTerm)
                 \/ Includes(ToLowerCase(job.description), searchTerm))
    ELSE jobs

SearchPass(jobs, f) ==
    IF f.search # <<>>
    THEN LET searchTerm == ToLowerCase(f.search)
         IN  SelectSeq(jobs, LAMBDA job :
                 \/ Includes(ToLowerCase(job.title), searchTerm)
                 \/ Includes(ToLowerCase(job.company), searchTerm)
                 \/ Includes(ToLowerCase(job.description), searchTerm))
    ELSE jobs

RemotePass(jobs, f) ==
    IF f.remoteOnly THEN SelectSeq(jobs, LAMBDA job : job.is_remote_work) ELSE jobs

CategoryPass(jobs, f) ==
    IF f.category # ""
    THEN SelectSeq(jobs, LAMBDA job : job.job_category = f.category)
    ELSE jobs

LocationPass(jobs, f) ==
    IF f.location # <<>>
    THEN SelectSeq(jobs, LAMBDA job :
             Includes(ToLowerCase(job.location), ToLowerCase(f.location)))
    ELSE jobs

\* a.salary_from && a.salary_to
HasSalary(job) == TruthyNum(job.salary_from) /\ TruthyNum(job.salary_to)

\* twice (a.salary_from + a.salary_to) / 2: the comparator only uses the sign
\* of a difference of two averages, which is the sign of the difference of
\* the two sums
SalarySum(job) == job.salary_from[1] + job.salary_to[1]

\* the comparator of the sort; only its sign matters.  Infinity - Infinity is
\* NaN, which Array.prototype.sort takes as +0.
Compare(a, b, sort) ==
    CASE sort = "oldest" -> a.created_at - b.created_at
      [] sort = "salary_high" ->
            (IF HasSalary(b) THEN SalarySum(b) ELSE 0)
          - (IF HasSalary(a) THEN SalarySum(a) ELSE 0)
      [] sort = "salary_low" ->
            IF HasSalary(a) /\ HasSalary(b) THEN SalarySum(a) - SalarySum(b)
            ELSE IF HasSalary(a) THEN -1
            ELSE IF HasSalary(b) THEN 1
            ELSE 0
      [] OTHER -> b.created_at - a.created_at

\* Array.prototype.sort is stable: x goes after every element that does not
\* compare greater than it
RECURSIVE InsertSorted(_, _, _)
InsertSorted(sorted, x, sort) ==
    IF sorted = <<>> THEN <<x>>
    ELSE LET last == sorted[Len(sorted)]
         IN  IF Compare(last, x, sort) > 0
             THEN Append(InsertSorted(SubSeq(sorted, 1, Len(sorted) - 1), x, sort), last)
             ELSE Append(sorted, x)

RECURSIVE SortJobs(_, _)
SortJobs(jobs, sort) ==
    IF jobs = <<>> THEN <<>>
    ELSE InsertSorted(SortJobs(SubSeq(jobs, 1, Len(jobs) - 1), sort),
                      jobs[Len(jobs)], sort)

ApplyFilters(jobs, f) ==
    SortJobs(LocationPass(CategoryPass(RemotePass(SearchPass(jobs, f), f), f), f),
             f.sort)

\* a field the record does not carry reads as undefined
Undefined(job, k) == k \notin DOMAIN job

\* the callback of the search pass calls toLowerCase() on title, company and
\* description in turn, stopping at the first that includes the term: it
\* throws when it reaches a field that is undefined
SearchThrows(job, searchTerm) ==
    \/ Undefined(job, "title")
    \/ /\ ~Includes(ToLowerCase(job.title), searchTerm)
       /\ \/ Undefined(job, "company")
          \/ /\ ~Includes(ToLowerCase(job.company), searchTerm)
             /\ Undefined(job, "description")

\* applyFilters throws: a job reaches the search pass, or the location pass,
\* without the text field the pass reads
ApplyFiltersThrows(jobs, f) ==
    IF f.search # <<>>
          /\ \E i \in 1..Len(jobs) : SearchThrows(jobs[i], ToLowerCase(f.search))
    THEN TRUE
    ELSE /\ f.location # <<>>
         /\ LET reached == CategoryPass(RemotePass(SearchPass(jobs, f), f), f)
            IN  \E i \in 1..Len(reached) : Undefined(reached[i], "location")

(***************************************************************************)
(* Queries.                                                                *)
(***************************************************************************)
HasApplied(apps, jobId) == \E i \in 1..Len(apps) : apps[i].jobId = jobId

IsJobSaved(saved, jobId) == \E i \in 1..Len(saved) : saved[i] = jobId

\* Math.floor in place of Math.ceil
TotalPagesFloor(totalItems) ==
    LET pages == totalItems \div itemsPerPage
    IN  IF pages = 0 THEN 1 ELSE pages

\* Math.ceil(totalItems / itemsPerPage) || 1
TotalPages(totalItems) ==
    LET pages == (totalItems + itemsPerPage - 1) \div itemsPerPage
    IN  IF pages = 0 THEN 1 ELSE pages

GetPaginationInfo(filtered, page) ==
    [currentPage |-> page,
     totalPages  |-> TotalPages(Len(filtered)),
     totalItems  |-> Len(filtered),
     hasPrevPage |-> page > 1,
     hasNextPage |-> page < TotalPages(Len(filtered))]

Min(a, b) == IF a < b THEN a ELSE b
Max(a, b) == IF a > b THEN a ELSE b

(***************************************************************************)
(* The state after construction: the constructor sets currentPage and      *)
(* calls init(), which reads the six keys.  x || d takes d for null and    *)
(* for the empty string.                                                   *)
(***************************************************************************)
OrString(entry, d) == IF entry = Null \/ entry[1] = "" THEN d ELSE entry[1]
OrArray(entry) == IF entry = Null THEN <<>> ELSE entry[1]

InitRole(st) == OrString(GetFromStorage(st, "USER_ROLE"), "job_seeker")
InitApplications(st) == OrArray(GetFromStorage(st, "APPLICATIONS"))
InitUserJobs(st) == OrArray(GetFromStorage(st, "USER_JOBS"))
InitSavedJobs(st) == OrArray(GetFromStorage(st, "SAVED_JOBS"))
InitTheme(st) == OrString(GetFromStorage(st, "THEME"), "light")
InitFilters(st) ==
    LET entry == GetFromStorage(st, "FILTERS")
    IN  IF entry = Null THEN defaultFilters ELSE Merge(defaultFilters, entry[1])

\* new JobAPI(): no cache, no fetch yet; pending holds the upstream requests
\* in flight and requests counts the ones issued
NewJobAPI == [cache |-> Null, lastFetch |-> Null, pending |-> {}, requests |-> 0]

noRet == [op |-> "constructor", args |-> <<>>, error |-> "", value |-> Null]

Init ==
    /\ storage = emptyStorage
    /\ storageFails = FALSE
    /\ userRole = InitRole(storage)
    /\ applications = InitApplications(storage)
    /\ userJobs = InitUserJobs(storage)
    /\ savedJobs = InitSavedJobs(storage)
    /\ theme = InitTheme(storage)
    /\ filters = InitFilters(storage)
    /\ currentPage = 1
    /\ allJobs = <<>>
    /\ filteredJobs = <<>>
    /\ now = 0
    /\ nextId = 1
    /\ events = <<>>
    /\ ret = noRet
    /\ appliedOk = {}
    /\ exported = Null
    /\ api = NewJobAPI
    /\ eventListeners = <<>>


(***************************************************************************)
(* Operations.  Every operation overwrites events and ret.                 *)
(***************************************************************************)
Event(name, data) == [name |-> name, data |-> data]

Returned(op, args, value) == [op |-> op, args |-> args, error |-> "", value |-> value]
Threw(op, args, error) == [op |-> op, args |-> args, error |-> error, value |-> Null]

\* no validation of the role
ValidRoleAny(role) == TRUE

ValidRole(role) == role = "job_seeker" \/ role = "recruiter"
ValidTheme(t) == t = "light" \/ t = "dark"

SetUserRole(role) ==
    /\ IF ~ValidRole(role)
       THEN /\ ret' = Threw("setUserRole", <<role>>, ErrInvalidRole)
            /\ events' = <<>>
            /\ UNCHANGED <<userRole, storage>>
       ELSE /\ userRole' = role
            /\ storage' = SaveToStorage(storage, storageFails, "USER_ROLE", role)
            /\ events' = <<Event("roleChanged", role)>>
            /\ ret' = Returned("setUserRole", <<role>>, Null)
    /\ UNCHANGED <<theme, applications, userJobs, savedJobs, filters, currentPage,
                   allJobs, filteredJobs, storageFails, exported, now, nextId, appliedOk,
                   api,
                   eventListeners>>

SetTheme(t) ==
    /\ IF ~ValidTheme(t)
       THEN /\ events' = <<>>
            /\ UNCHANGED <<theme, storage>>
       ELSE /\ theme' = t
            /\ storage' = SaveToStorage(storage, storageFails, "THEME", t)
            /\ events' = <<Event("themeChanged", t)>>
    /\ ret' = Returned("setTheme", <<t>>, Null)
    /\ UNCHANGED <<userRole, applications, userJobs, savedJobs, filters, currentPage,
                   allJobs, filteredJobs, storageFails, exported, now, nextId, appliedOk,
                   api,
                   eventListeners>>

\* setAllJobs(jobs): jobs || [] is jobs for every array
SetAllJobs(jobs) ==
    /\ allJobs' = jobs
    /\ IF ApplyFiltersThrows(allJobs', filters)
       THEN /\ UNCHANGED filteredJobs
            /\ events' = <<>>
            /\ ret' = Threw("setAllJobs", <<jobs>>, ErrUndefined)
       ELSE /\ filteredJobs' = ApplyFilters(allJobs', filters)
            /\ events' = <<Event("jobsUpdated", filteredJobs')>>
            /\ ret' = Returned("setAllJobs", <<jobs>>, Null)
    /\ UNCHANGED <<userRole, theme, applications, userJobs, savedJobs, filters,
                   currentPage, storage, storageFails, exported, now, nextId, appliedOk,
                   api,
                   eventListeners>>

\* the record addJob builds: the generated id, then jobData, then the
\* store's timestamps and source
NewJob(jobData, id, time) ==
    Merge(Merge([id |-> id], jobData),
          [created_at |-> time, updated_at |-> time, source |-> "user"])

\* the two notifications in the opposite order
AddJobEventsSwapped(job, view) ==
    <<Event("jobsUpdated", view), Event("jobAdded", job)>>

\* emit('jobAdded', job); emit('jobsUpdated', this.filteredJobs)
AddJobEvents(job, view) ==
    <<Event("jobAdded", job), Event("jobsUpdated", view)>>

AddJob(jobData) ==
    /\ nextId <= MaxGen
    /\ LET job == NewJob(jobData, GenJobId(nextId), now)
       IN  /\ userJobs' = Append(userJobs, job)
           /\ allJobs' = Append(allJobs, job)
           /\ storage' = SaveToStorage(storage, storageFails, "USER_JOBS", userJobs')
           /\ IF ApplyFiltersThrows(allJobs', filters)
              THEN /\ UNCHANGED filteredJobs
                   /\ events' = <<>>
                   /\ ret' = Threw("addJob", <<jobData>>, ErrUndefined)
              ELSE /\ filteredJobs' = ApplyFilters(allJobs', filters)
                   /\ events' = AddJobEvents(job, filteredJobs')
                   /\ ret' = Returned("addJob", <<jobData>>, <<job>>)
    /\ nextId' = nextId + 1
    /\ UNCHANGED <<userRole, theme, applications, savedJobs, filters, currentPage,
                   storageFails, exported, now, appliedOk,
                   api,
                   eventListeners>>

\* { ...updatedData, ...job, updated_at: now }: the spread in the opposite order
PatchedUnder(job, updatedData, time) ==
    Merge(Merge(updatedData, job), [updated_at |-> time])

\* { ...job, ...updatedData, updated_at: now }
Patched(job, updatedData, time) ==
    Merge(Merge(job, updatedData), [updated_at |-> time])

UpdateJob(jobId, updatedData) ==
    LET userJobIndex == FindIndex(userJobs, jobId)
        allJobIndex == FindIndex(allJobs, jobId)
        fromUser == IF userJobIndex # 0
                    THEN <<Patched(userJobs[userJobIndex], updatedData, now)>>
                    ELSE Null
        updatedJob == IF fromUser # Null THEN fromUser
                      ELSE IF allJobIndex # 0
                           THEN <<Patched(allJobs[allJobIndex], updatedData, now)>>
                           ELSE Null
    IN  /\ userJobs' = IF userJobIndex # 0
                       THEN [userJobs EXCEPT ![userJobIndex] = fromUser[1]]
                       ELSE userJobs
        /\ storage' = IF userJobIndex # 0
                      THEN SaveToStorage(storage, storageFails, "USER_JOBS", userJobs')
                      ELSE storage
        /\ allJobs' = IF allJobIndex # 0
                      THEN [allJobs EXCEPT ![allJobIndex] = updatedJob[1]]
                      ELSE allJobs
        /\ IF ApplyFiltersThrows(allJobs', filters)
           THEN /\ UNCHANGED filteredJobs
                /\ events' = <<>>
                /\ ret' = Threw("updateJob", <<jobId, updatedData>>, ErrUndefined)
           ELSE /\ filteredJobs' = ApplyFilters(allJobs', filters)
                /\ events' = <<Event("jobUpdated", updatedJob),
                               Event("jobsUpdated", filteredJobs')>>
                /\ ret' = Returned("updateJob", <<jobId, updatedData>>, Null)
        /\ UNCHANGED <<userRole, theme, applications, savedJobs, filters, currentPage,
                       storageFails, exported, now, nextId, appliedOk,
                   api,
                   eventListeners>>

\* splice(findIndex(job => job.id === jobId), 1): only the first match goes
WithoutFirstJob(jobs, jobId) ==
    IF FindIndex(jobs, jobId) = 0 THEN jobs ELSE RemoveAt(jobs, FindIndex(jobs, jobId))

\* jobs.filter(job => job.id !== jobId)
WithoutJob(jobs, jobId) == SelectSeq(jobs, LAMBDA job : job.id # jobId)

\* deleteJob taking the applications for the job with it
DeleteJobCascading(jobId) ==
    /\ userJobs' = WithoutJob(userJobs, jobId)
    /\ storage' = SaveToStorage(storage, storageFails, "USER_JOBS", userJobs')
    /\ allJobs' = WithoutJob(allJobs, jobId)
    /\ applications' = SelectSeq(applications, LAMBDA app : app.jobId # jobId)
    /\ IF ApplyFiltersThrows(allJobs', filters)
       THEN /\ UNCHANGED filteredJobs
            /\ events' = <<>>
            /\ ret' = Threw("deleteJob", <<jobId>>, ErrUndefined)
       ELSE /\ filteredJobs' = ApplyFilters(allJobs', filters)
            /\ events' = <<Event("jobDeleted", jobId),
                           Event("jobsUpdated", filteredJobs')>>
            /\ ret' = Returned("deleteJob", <<jobId>>, Null)
    /\ UNCHANGED <<userRole, theme, savedJobs, filters, currentPage,
                   storageFails, exported, now, nextId, appliedOk,
                   api,
                   eventListeners>>

\* deleteJob dropping the saved reference to the job as well
DeleteJobPruning(jobId) ==
    /\ userJobs' = WithoutJob(userJobs, jobId)
    /\ savedJobs' = SelectSeq(savedJobs, LAMBDA id : id # jobId)
    /\ storage' = SaveToStorage(
                      SaveToStorage(storage, storageFails, "USER_JOBS", userJobs'),
                      storageFails, "SAVED_JOBS", savedJobs')
    /\ allJobs' = WithoutJob(allJobs, jobId)
    /\ IF ApplyFiltersThrows(allJobs', filters)
       THEN /\ UNCHANGED filteredJobs
            /\ events' = <<>>
            /\ ret' = Threw("deleteJob", <<jobId>>, ErrUndefined)
       ELSE /\ filteredJobs' = ApplyFilters(allJobs', filters)
            /\ events' = <<Event("jobDeleted", jobId),
                           Event("jobsUpdated", filteredJobs')>>
            /\ ret' = Returned("deleteJob", <<jobId>>, Null)
    /\ UNCHANGED <<userRole, theme, applications, filters, currentPage,
                   storageFails, exported, now, nextId, appliedOk,
                   api,
                   eventListeners>>

DeleteJob(jobId) ==
    /\ userJobs' = WithoutJob(userJobs, jobId)
    /\ storage' = SaveToStorage(storage, storageFails, "USER_JOBS", userJobs')
    /\ allJobs' = WithoutJob(allJobs, jobId)
    /\ IF ApplyFiltersThrows(allJobs', filters)
       THEN /\ UNCHANGED filteredJobs
            /\ events' = <<>>
            /\ ret' = Threw("deleteJob", <<jobId>>, ErrUndefined)
       ELSE /\ filteredJobs' = ApplyFilters(allJobs', filters)
            /\ events' = <<Event("jobDeleted", jobId),
                           Event("jobsUpdated", filteredJobs')>>
            /\ ret' = Returned("deleteJob", <<jobId>>, Null)
    /\ UNCHANGED <<userRole, theme, applications, savedJobs, filters, currentPage,
                   storageFails, exported, now, nextId, appliedOk,
                   api,
                   eventListeners>>

\* the record applyForJob builds: the store's fields, then applicantDetails
NewApplication(jobId, job, applicantDetails, id, time) ==
    Merge([id |-> id, jobId |-> jobId, jobTitle |-> job.title,
           company |-> job.company, appliedAt |-> time, status |-> "pending"],
          applicantDetails)

ApplyForJob(jobId, applicantDetails) ==
    /\ (~HasApplied(applications, jobId) /\ FindJob(allJobs, jobId) # Null)
           => nextId <= MaxGen
    /\ IF HasApplied(applications, jobId)
       THEN /\ ret' = Threw("applyForJob", <<jobId, applicantDetails>>, ErrDuplicate)
            /\ events' = <<>>
            /\ UNCHANGED <<applications, storage, nextId, appliedOk>>
       ELSE IF FindJob(allJobs, jobId) = Null
       THEN /\ ret' = Threw("applyForJob", <<jobId, applicantDetails>>, ErrNotFound)
            /\ events' = <<>>
            /\ UNCHANGED <<applications, storage, nextId, appliedOk>>
       ELSE LET job == FindJob(allJobs, jobId)[1]
                application == NewApplication(jobId, job, applicantDetails,
                                              GenAppId(nextId), now)
            IN  /\ applications' = Append(applications, application)
                /\ storage' = SaveToStorage(storage, storageFails, "APPLICATIONS",
                                            applications')
                /\ events' = <<Event("applicationSubmitted", application)>>
                /\ ret' = Returned("applyForJob", <<jobId, applicantDetails>>,
                                   <<application>>)
                /\ nextId' = nextId + 1
                /\ appliedOk' = appliedOk \cup {jobId}
    /\ UNCHANGED <<userRole, theme, userJobs, savedJobs, filters, currentPage,
                   allJobs, filteredJobs, storageFails, exported, now,
                   api,
                   eventListeners>>

SaveJob(jobId) ==
    /\ IF ~IsJobSaved(savedJobs, jobId)
       THEN /\ savedJobs' = Append(savedJobs, jobId)
            /\ storage' = SaveToStorage(storage, storageFails, "SAVED_JOBS", savedJobs')
            /\ events' = <<Event("jobSaved", jobId)>>
       ELSE /\ events' = <<>>
            /\ UNCHANGED <<savedJobs, storage>>
    /\ ret' = Returned("saveJob", <<jobId>>, Null)
    /\ UNCHANGED <<userRole, theme, applications, userJobs, filters, currentPage,
                   allJobs, filteredJobs, storageFails, exported, now, nextId, appliedOk,
                   api,
                   eventListeners>>

UnsaveJob(jobId) ==
    /\ LET index == IndexOf(savedJobs, jobId)
       IN  IF index > 0
           THEN /\ savedJobs' = RemoveAt(savedJobs, index)
                /\ storage' = SaveToStorage(storage, storageFails, "SAVED_JOBS",
                                            savedJobs')
                /\ events' = <<Event("jobUnsaved", jobId)>>
           ELSE /\ events' = <<>>
                /\ UNCHANGED <<savedJobs, storage>>
    /\ ret' = Returned("unsaveJob", <<jobId>>, Null)
    /\ UNCHANGED <<userRole, theme, applications, userJobs, filters, currentPage,
                   allJobs, filteredJobs, storageFails, exported, now, nextId, appliedOk,
                   api,
                   eventListeners>>

\* the new status written under the record's own: the old status stays
WithStatusUnder(application, status) == Merge([status |-> status], application)

\* this.applications[appIndex].status = status
WithStatus(application, status) == Merge(application, [status |-> status])

UpdateApplicationStatus(applicationId, status) ==
    /\ LET appIndex == FindIndex(applications, applicationId)
       IN  IF appIndex # 0
           THEN /\ applications' =
                       [applications EXCEPT ![appIndex] = WithStatus(@, status)]
                /\ storage' = SaveToStorage(storage, storageFails, "APPLICATIONS",
                                            applications')
                /\ events' = <<Event("applicationUpdated", applications'[appIndex])>>
           ELSE /\ events' = <<>>
                /\ UNCHANGED <<applications, storage>>
    /\ ret' = Returned("updateApplicationStatus", <<applicationId, status>>, Null)
    /\ UNCHANGED <<userRole, theme, userJobs, savedJobs, filters, currentPage,
                   allJobs, filteredJobs, storageFails, exported, now, nextId, appliedOk,
                   api,
                   eventListeners>>

SetPage(page) ==
    /\ LET info == GetPaginationInfo(filteredJobs, currentPage)
           newPage == Max(1, Min(page, info.totalPages))
       IN  IF currentPage # newPage
           THEN /\ currentPage' = newPage
                /\ events' = <<Event("pageChanged",
                                     GetPaginationInfo(filteredJobs, newPage))>>
           ELSE /\ events' = <<>>
                /\ UNCHANGED currentPage
    /\ ret' = Returned("setPage", <<page>>, Null)
    /\ UNCHANGED <<userRole, theme, applications, userJobs, savedJobs, filters,
                   allJobs, filteredJobs, storage, storageFails, exported, now, nextId,
                   appliedOk,
                   api,
                   eventListeners>>

\* { ...newFilters, ...this.filters }: the spread in the opposite order
MergeFiltersReversed(current, newFilters) == Merge(newFilters, current)

\* { ...this.filters, ...newFilters }
MergeFilters(current, newFilters) == Merge(current, newFilters)

SetFilters(newFilters) ==
    /\ currentPage' = 1
    /\ filters' = MergeFilters(filters, newFilters)
    /\ storage' = SaveToStorage(storage, storageFails, "FILTERS", filters')
    /\ IF ApplyFiltersThrows(allJobs, filters')
       THEN /\ UNCHANGED filteredJobs
            /\ events' = <<>>
            /\ ret' = Threw("setFilters", <<newFilters>>, ErrUndefined)
       ELSE /\ filteredJobs' = ApplyFilters(allJobs, filters')
            /\ events' = <<Event("filtersChanged", filters'),
                           Event("jobsUpdated", filteredJobs')>>
            /\ ret' = Returned("setFilters", <<newFilters>>, Null)
    /\ UNCHANGED <<userRole, theme, applications, userJobs, savedJobs, allJobs,
                   storageFails, exported, now, nextId, appliedOk,
                   api,
                   eventListeners>>

ResetFilters ==
    /\ currentPage' = 1
    /\ filters' = defaultFilters
    /\ storage' = SaveToStorage(storage, storageFails, "FILTERS", filters')
    /\ IF ApplyFiltersThrows(allJobs, filters')
       THEN /\ UNCHANGED filteredJobs
            /\ events' = <<>>
            /\ ret' = Threw("resetFilters", <<>>, ErrUndefined)
       ELSE /\ filteredJobs' = ApplyFilters(allJobs, filters')
            /\ events' = <<Event("filtersChanged", filters'),
                           Event("jobsUpdated", filteredJobs')>>
            /\ ret' = Returned("resetFilters", <<>>, Null)
    /\ UNCHANGED <<userRole, theme, applications, userJobs, savedJobs, allJobs,
                   storageFails, exported, now, nextId, appliedOk,
                   api,
                   eventListeners>>

\* clearAllData: removeItem on the six keys, then init() on the emptied storage
\* new JobPortalState() on a page load: init() from the storage as it is
Constructor ==
    /\ userRole' = InitRole(storage)
    /\ applications' = InitApplications(storage)
    /\ userJobs' = InitUserJobs(storage)
    /\ savedJobs' = InitSavedJobs(storage)
    /\ theme' = InitTheme(storage)
    /\ filters' = InitFilters(storage)
    /\ currentPage' = 1
    /\ allJobs' = <<>>
    /\ filteredJobs' = <<>>
    /\ events' = <<>>
    /\ ret' = noRet
    /\ appliedOk' = {}
    /\ eventListeners' = <<>>
    /\ UNCHANGED <<storage, storageFails, exported, now, nextId, api>>

\* addEventListener(event, callback): the callback goes to the end of the
\* event's list; nothing takes a registration out again
AddEventListener(event, callback) ==
    /\ Len(eventListeners) < MaxListeners
    /\ eventListeners' = Append(eventListeners, [event |-> event, callback |-> callback])
    /\ events' = <<>>
    /\ ret' = Returned("addEventListener", <<event, callback>>, Null)
    /\ UNCHANGED <<userRole, theme, applications, userJobs, savedJobs, filters,
                   currentPage, allJobs, filteredJobs, storage, storageFails,
                   exported, now, nextId, appliedOk, api>>

\* clearAllData keeping the job collection that was loaded
ClearAllDataKeepingJobs ==
    /\ storage' = emptyStorage
    /\ userRole' = InitRole(storage')
    /\ applications' = InitApplications(storage')
    /\ userJobs' = InitUserJobs(storage')
    /\ savedJobs' = InitSavedJobs(storage')
    /\ theme' = InitTheme(storage')
    /\ filters' = InitFilters(storage')
    /\ currentPage' = 1
    /\ filteredJobs' = ApplyFilters(allJobs, filters')
    /\ events' = <<Event("dataCleared", Null)>>
    /\ ret' = Returned("clearAllData", <<>>, Null)
    /\ appliedOk' = {}
    /\ UNCHANGED <<allJobs, storageFails, exported, now, nextId, api,
                   eventListeners>>

ClearAllData ==
    /\ storage' = emptyStorage
    /\ userRole' = InitRole(storage')
    /\ applications' = InitApplications(storage')
    /\ userJobs' = InitUserJobs(storage')
    /\ savedJobs' = InitSavedJobs(storage')
    /\ theme' = InitTheme(storage')
    /\ filters' = InitFilters(storage')
    /\ currentPage' = 1
    /\ allJobs' = <<>>
    /\ filteredJobs' = <<>>
    /\ events' = <<Event("dataCleared", Null)>>
    /\ ret' = Returned("clearAllData", <<>>, Null)
    /\ appliedOk' = {}
    /\ UNCHANGED <<storageFails, exported, now, nextId, api,
                   eventListeners>>

\* importData(data): data is Null or <<record>>.  A field is applied when it is
\* present and truthy (a non-empty string, any array, any object).
\* no field is taken to be there
PresentNever(d, k) == FALSE

Present(d, k) == k \in DOMAIN d

\* no string field is taken to be there
PresentStringNever(d, k) == FALSE

PresentString(d, k) == Present(d, k) /\ d[k] # ""

\* the role checked after the other fields were applied
AppliedBeforeThrowAll(d) ==
    {"theme", "applications", "userJobs", "savedJobs", "filters"}

\* the fields importData has gone through when setUserRole throws: none,
\* setUserRole being the first statement of the try block
AppliedBeforeThrow(d) == {}

ImportData(data) ==
    LET \* data.userRole of null, or setUserRole, throws: caught, false
        threw == data = Null \/ (PresentString(data[1], "userRole")
                                   /\ ~ValidRole(data[1].userRole))
        d == IF data = Null THEN [k \in {} |-> Null] ELSE data[1]
        applied(k) == Present(d, k) /\ (threw => k \in AppliedBeforeThrow(d))
        hasRole == ~threw /\ PresentString(d, "userRole")
        hasTheme == applied("theme") /\ d.theme # "" /\ ValidTheme(d.theme)
        st1 == IF hasRole
               THEN SaveToStorage(storage, storageFails, "USER_ROLE", d.userRole)
               ELSE storage
        st2 == IF hasTheme
               THEN SaveToStorage(st1, storageFails, "THEME", d.theme)
               ELSE st1
        st3 == IF applied("applications")
               THEN SaveToStorage(st2, storageFails, "APPLICATIONS", d.applications)
               ELSE st2
        st4 == IF applied("userJobs")
               THEN SaveToStorage(st3, storageFails, "USER_JOBS", d.userJobs)
               ELSE st3
        st5 == IF applied("savedJobs")
               THEN SaveToStorage(st4, storageFails, "SAVED_JOBS", d.savedJobs)
               ELSE st4
    IN  /\ userRole' = IF hasRole THEN d.userRole ELSE userRole
        /\ theme' = IF hasTheme THEN d.theme ELSE theme
        /\ applications' = IF applied("applications")
                           THEN d.applications ELSE applications
        /\ userJobs' = IF applied("userJobs") THEN d.userJobs ELSE userJobs
        /\ savedJobs' = IF applied("savedJobs") THEN d.savedJobs ELSE savedJobs
        /\ filters' = IF applied("filters")
                      THEN Merge(defaultFilters, d.filters) ELSE filters
        /\ storage' = IF applied("filters")
                      THEN SaveToStorage(st5, storageFails, "FILTERS", filters')
                      ELSE st5
        /\ events' = (IF hasRole THEN <<Event("roleChanged", d.userRole)>>
                      ELSE <<>>)
                     \o (IF hasTheme THEN <<Event("themeChanged", d.theme)>>
                         ELSE <<>>)
                     \o (IF threw THEN <<>> ELSE <<Event("dataImported", d)>>)
        /\ ret' = Returned("importData", <<data>>, <<~threw>>)
        /\ appliedOk' = {}
        /\ UNCHANGED <<currentPage, allJobs, filteredJobs, storageFails, exported,
                       now, nextId, api,
                   eventListeners>>

\* exportData(): the six durable fields and the time of the export.  The
\* application writes the record to a backup file as JSON text, so the file
\* keeps the values of the moment of the export.
ExportedData ==
    [userRole |-> userRole, applications |-> applications, userJobs |-> userJobs,
     savedJobs |-> savedJobs, theme |-> theme, filters |-> filters,
     exportedAt |-> now]

ExportData ==
    /\ exported' = <<ExportedData>>
    /\ events' = <<>>
    /\ ret' = Returned("exportData", <<>>, <<ExportedData>>)
    /\ UNCHANGED <<userRole, theme, applications, userJobs, savedJobs, filters,
                   currentPage, allJobs, filteredJobs, storage, storageFails, now,
                   nextId, appliedOk,
                   api,
                   eventListeners>>

(***************************************************************************)
(* The query accessors.  A query returns a value; it assigns no field,     *)
(* calls neither saveToStorage nor emit.                                   *)
(***************************************************************************)
Query(op, args, value) ==
    /\ ret' = Returned(op, args, <<value>>)
    /\ events' = <<>>
    /\ UNCHANGED <<userRole, theme, applications, userJobs, savedJobs, filters,
                   currentPage, allJobs, filteredJobs, storage, storageFails,
                   exported, now, nextId, appliedOk,
                   api,
                   eventListeners>>

GetAllJobs == Query("getAllJobs", <<>>, allJobs)
GetFilteredJobs == Query("getFilteredJobs", <<>>, filteredJobs)
GetUserJobs == Query("getUserJobs", <<>>, userJobs)
GetApplications == Query("getApplications", <<>>, applications)

GetApplicationsForJob(jobId) ==
    Query("getApplicationsForJob", <<jobId>>,
          SelectSeq(applications, LAMBDA app : app.jobId = jobId))

\* allJobs.find(...): the job, or undefined
GetJobById(jobId) == Query("getJobById", <<jobId>>, FindJob(allJobs, jobId))

IsJobSavedCall(jobId) ==
    Query("isJobSaved", <<jobId>>, IsJobSaved(savedJobs, jobId))

HasAppliedCall(jobId) ==
    Query("hasApplied", <<jobId>>, HasApplied(applications, jobId))

\* filteredJobs.slice(start, end): a new array
PaginatedJobs(filtered, page) ==
    LET start == (page - 1) * itemsPerPage
    IN  SubSeq(filtered, start + 1, Min(start + itemsPerPage, Len(filtered)))

GetPaginatedJobs ==
    Query("getPaginatedJobs", <<>>, PaginatedJobs(filteredJobs, currentPage))

GetPaginationInfoCall ==
    Query("getPaginationInfo", <<>>, GetPaginationInfo(filteredJobs, currentPage))

GetStats ==
    Query("getStats", <<>>,
          [totalJobs |-> Len(allJobs), filteredJobs |-> Len(filteredJobs),
           applications |-> Len(applications), userJobs |-> Len(userJobs),
           savedJobs |-> Len(savedJobs)])

\* the comparator with a and b exchanged: oldest save first
CompareSavedAscending(a, b, saved) == IndexOf(saved, a.id) - IndexOf(saved, b.id)

\* (a, b) => savedJobs.indexOf(b.id) - savedJobs.indexOf(a.id)
CompareSaved(a, b, saved) == IndexOf(saved, b.id) - IndexOf(saved, a.id)

RECURSIVE InsertSaved(_, _, _)
InsertSaved(sorted, x, saved) ==
    IF sorted = <<>> THEN <<x>>
    ELSE LET last == sorted[Len(sorted)]
         IN  IF CompareSaved(last, x, saved) > 0
             THEN Append(InsertSaved(SubSeq(sorted, 1, Len(sorted) - 1), x, saved),
                         last)
             ELSE Append(sorted, x)

\* Array.prototype.sort with the comparator of getSavedJobs (stable)
RECURSIVE SortSaved(_, _)
SortSaved(jobs, saved) ==
    IF jobs = <<>> THEN <<>>
    ELSE InsertSaved(SortSaved(SubSeq(jobs, 1, Len(jobs) - 1), saved),
                     jobs[Len(jobs)], saved)

\* the value of getSavedJobs()
SavedJobs(jobs, saved) ==
    IF Len(saved) = 0 THEN <<>>
    ELSE SortSaved(SelectSeq(jobs, LAMBDA job : IsJobSaved(saved, job.id)), saved)

\* sort() applied to this.allJobs itself
AllJobsSortedInPlace(jobs, saved) ==
    IF Len(saved) = 0 THEN jobs ELSE SortSaved(jobs, saved)

\* this.allJobs after getSavedJobs(): sort() reorders in place the array
\* that filter() has created, this.allJobs keeps its order
AllJobsAfterGetSavedJobs(jobs, saved) == jobs

GetSavedJobs ==
    /\ ret' = Returned("getSavedJobs", <<>>, <<SavedJobs(allJobs, savedJobs)>>)
    /\ allJobs' = AllJobsAfterGetSavedJobs(allJobs, savedJobs)
    /\ events' = <<>>
    /\ UNCHANGED <<userRole, theme, applications, userJobs, savedJobs, filters,
                   currentPage, filteredJobs, storage, storageFails, exported,
                   now, nextId, appliedOk,
                   api,
                   eventListeners>>

(***************************************************************************)
(* The view layer: the two lists that sort what the store hands out.       *)
(* getApplications() and getUserJobs() return the store's own arrays and   *)
(* Array.prototype.sort sorts the array it is called on.                   *)
(***************************************************************************)
\* (a, b) => new Date(b.appliedAt) - new Date(a.appliedAt)
CompareApplied(a, b) == b.appliedAt - a.appliedAt

RECURSIVE InsertApplied(_, _)
InsertApplied(sorted, x) ==
    IF sorted = <<>> THEN <<x>>
    ELSE LET last == sorted[Len(sorted)]
         IN  IF CompareApplied(last, x) > 0
             THEN Append(InsertApplied(SubSeq(sorted, 1, Len(sorted) - 1), x), last)
             ELSE Append(sorted, x)

\* applications.sort(...) with the comparator of the applications list (stable)
RECURSIVE SortApplied(_)
SortApplied(apps) ==
    IF apps = <<>> THEN <<>>
    ELSE InsertApplied(SortApplied(SubSeq(apps, 1, Len(apps) - 1)), apps[Len(apps)])

\* userJobs.sort((a, b) => new Date(b.created_at) - new Date(a.created_at)):
\* the comparator of the store's "newest" order
SortCreated(jobs) == SortJobs(jobs, "newest")

\* what the list element shows: the empty state, or one item per record
Rendered(items, emptyTitle) ==
    IF Len(items) = 0 THEN [empty |-> emptyTitle, items |-> <<>>]
    ELSE [empty |-> "", items |-> items]

RenderApplicationsList ==
    /\ applications' = SortApplied(applications)
    /\ ret' = Returned("renderApplicationsList", <<>>,
                       <<Rendered(applications', "No applications yet")>>)
    /\ events' = <<>>
    /\ UNCHANGED <<userRole, theme, userJobs, savedJobs, filters, currentPage,
                   allJobs, filteredJobs, storage, storageFails, exported, now,
                   nextId, appliedOk, api,
                   eventListeners>>

RenderManageJobsList ==
    /\ userJobs' = SortCreated(userJobs)
    /\ ret' = Returned("renderManageJobsList", <<>>,
                       <<Rendered(userJobs', "No jobs posted yet")>>)
    /\ events' = <<>>
    /\ UNCHANGED <<userRole, theme, applications, savedJobs, filters, currentPage,
                   allJobs, filteredJobs, storage, storageFails, exported, now,
                   nextId, appliedOk, api,
                   eventListeners>>

\* from now on localStorage.setItem throws (quota exceeded, storage disabled)
QuotaExceeded ==
    /\ ~storageFails
    /\ storageFails' = TRUE
    /\ UNCHANGED <<userRole, theme, applications, userJobs, savedJobs, filters,
                   currentPage, allJobs, filteredJobs, storage, exported, now,
                   nextId, events, ret, appliedOk,
                   api,
                   eventListeners>>

\* the clock advances between operations
Tick ==
    /\ now < MaxNow
    /\ now' = now + 1
    /\ UNCHANGED <<userRole, theme, applications, userJobs, savedJobs, filters,
                   currentPage, allJobs, filteredJobs, storage, storageFails, exported, nextId,
                   events, ret, appliedOk,
                   api,
                   eventListeners>>


(***************************************************************************)
(* JobAPI (api.js).  A JavaScript value of an upstream response carries    *)
(* its type: undefined, null, NaN, a boolean, a number, a string with its  *)
(* characters, an array with its elements, an object with its own fields.  *)
(***************************************************************************)
JUndefined == [t |-> "undefined"]
JNull == [t |-> "null"]
JNaN == [t |-> "NaN"]
JBool(b) == [t |-> "boolean", v |-> b]
JNum(n) == [t |-> "number", v |-> n]
JStr(chars) == [t |-> "string", v |-> chars]
JArr(items) == [t |-> "array", v |-> items]
JObj(fields) == [t |-> "object", v |-> fields]

\* the string toISOString() gives for the instant ms
IsoString(ms) == JStr(<<"iso", ms>>)

\* `job_${Date.now()}_${Math.random().toString(36).substr(2, 9)}`
GeneratedId(time, rnd) == JStr(<<"job", time, rnd>>)

\* the value as a condition: if (x), x || y, Boolean(x)
Truthy(x) ==
    CASE x.t \in {"undefined", "null", "NaN"} -> FALSE
      [] x.t = "boolean" -> x.v
      [] x.t = "number" -> x.v # 0
      [] x.t = "string" -> Len(x.v) > 0
      [] OTHER -> TRUE

\* x || y
OrElse(x, y) == IF Truthy(x) THEN x ELSE y

IsArray(x) == x.t = "array"

\* job.k: undefined for a field the record lacks and for any field of a
\* number, a string or a boolean
Field(job, k) ==
    IF job.t = "object" /\ k \in DOMAIN job.v THEN job.v[k] ELSE JUndefined

\* job.qualifications of null or undefined is a TypeError
ReadThrows(job) == job.t \in {"undefined", "null"}

IsDigit(c) == c \in {"0", "1", "2", "3", "4", "5", "6", "7", "8", "9"}

DigitValue(c) ==
    CASE c = "0" -> 0 [] c = "1" -> 1 [] c = "2" -> 2 [] c = "3" -> 3
      [] c = "4" -> 4 [] c = "5" -> 5 [] c = "6" -> 6 [] c = "7" -> 7
      [] c = "8" -> 8 [] c = "9" -> 9

RECURSIVE TrimStart(_)
TrimStart(s) == IF s # <<>> /\ s[1] = " " THEN TrimStart(Tail(s)) ELSE s

RECURSIVE LeadingDigits(_)
LeadingDigits(s) ==
    IF s # <<>> /\ IsDigit(s[1]) THEN 1 + LeadingDigits(Tail(s)) ELSE 0

RECURSIVE Decimal(_)
Decimal(s) ==
    IF s = <<>> THEN 0
    ELSE 10 * Decimal(SubSeq(s, 1, Len(s) - 1)) + DigitValue(s[Len(s)])

\* parseInt of a string: leading blanks, a sign, then the decimal digits up
\* to the first other character; NaN when there is no digit
ParseIntString(s) ==
    LET s1 == TrimStart(s)
        signed == s1 # <<>> /\ s1[1] \in {"-", "+"}
        s2 == IF signed THEN Tail(s1) ELSE s1
        n == LeadingDigits(s2)
        magnitude == Decimal(SubSeq(s2, 1, n))
    IN  IF n = 0 THEN JNaN
        ELSE IF signed /\ s1[1] = "-" THEN JNum(0 - magnitude)
        ELSE JNum(magnitude)

\* parseInt(x): x is turned into a string first, so a whole number gives
\* itself, an array what its first element gives, and undefined, null, a
\* boolean and an object give NaN
RECURSIVE ParseInt(_)
ParseInt(x) ==
    CASE x.t = "number" -> x
      [] x.t = "string" -> ParseIntString(x.v)
      [] x.t = "array" -> IF x.v = <<>> THEN JNaN ELSE ParseInt(x.v[1])
      [] OTHER -> JNaN

\* the texts of the qualifications field: ["a"], [], {}, 7, null, {not
TextArray == <<"[", "\"", "a", "\"", "]">>
TextEmptyArray == <<"[", "]">>
TextObject == <<"{", "}">>
TextNumber == <<"7">>
TextNull == <<"n", "u", "l", "l">>
TextBroken == <<"{", "n", "o", "t">>

\* JSON.parse(text): the value, or the SyntaxError
JsonParse(text) ==
    CASE text = TextArray -> [ok |-> TRUE, value |-> JArr(<<JStr(<<"a">>)>>)]
      [] text = TextEmptyArray -> [ok |-> TRUE, value |-> JArr(<<>>)]
      [] text = TextObject -> [ok |-> TRUE, value |-> JObj(<<>>)]
      [] text = TextNumber -> [ok |-> TRUE, value |-> JNum(7)]
      [] text = TextNull -> [ok |-> TRUE, value |-> JNull]
      [] OTHER -> [ok |-> FALSE, value |-> JUndefined]

\* the array check dropped
EnsureArrayKept(x) == x

\* if (!Array.isArray(qualifications)) qualifications = []
EnsureArray(x) == IF IsArray(x) THEN x ELSE JArr(<<>>)

\* the qualifications of the normalised record
Qualifications(job) ==
    LET q == Field(job, "qualifications")
        parsed == IF ~Truthy(q) THEN JArr(<<>>)
                  ELSE IF q.t = "string"
                       THEN IF JsonParse(q.v).ok THEN JsonParse(q.v).value
                            ELSE JArr(<<>>)
                  ELSE IF IsArray(q) THEN q
                  ELSE JArr(<<>>)
    IN  EnsureArray(parsed)

\* the date texts: 2024-01-02 is a date, soon is none
TextDate == <<"2", "0", "2", "4", "-", "0", "1", "-", "0", "2">>
TextNoDate == <<"s", "o", "o", "n">>

\* the instant of 2024-01-02T00:00:00Z on the clock of the model
DateInstant == 5

\* new Date(x).getTime(): NaN for an invalid date
DateTime(x) ==
    CASE x.t = "number" -> x
      [] x.t = "string" /\ x.v = TextDate -> JNum(DateInstant)
      [] x.t = "string" /\ Len(x.v) = 2 /\ x.v[1] = "iso" -> JNum(x.v[2])
      [] OTHER -> JNaN

\* parseDate(dateStr)
ParseDate(x) ==
    IF ~Truthy(x) THEN JNull
    ELSE IF DateTime(x).t = "NaN" THEN JNull
    ELSE IsoString(DateTime(x).v)

UntitledPosition ==
    <<"U", "n", "t", "i", "t", "l", "e", "d", " ", "P", "o", "s", "i", "t",
    "i", "o", "n">>
NoDescription ==
    <<"N", "o", " ", "d", "e", "s", "c", "r", "i", "p", "t", "i", "o", "n",
    " ", "a", "v", "a", "i", "l", "a", "b", "l", "e">>
UnknownCompany ==
    <<"U", "n", "k", "n", "o", "w", "n", " ", "C", "o", "m", "p", "a", "n",
    "y">>
NoLocation ==
    <<"L", "o", "c", "a", "t", "i", "o", "n", " ", "n", "o", "t", " ", "s",
    "p", "e", "c", "i", "f", "i", "e", "d">>
FullTime ==
    <<"F", "u", "l", "l", "-", "t", "i", "m", "e">>
NoContact ==
    <<"N", "o", " ", "c", "o", "n", "t", "a", "c", "t", " ", "i", "n", "f",
    "o", "r", "m", "a", "t", "i", "o", "n">>
OtherCategory ==
    <<"O", "t", "h", "e", "r">>
SourceApi ==
    <<"a", "p", "i">>

\* the record normalizeJob builds
NormalizedJob(job, time, rnd) ==
    [id |-> OrElse(Field(job, "id"), GeneratedId(time, rnd)),
     title |-> OrElse(Field(job, "title"), JStr(UntitledPosition)),
     description |-> OrElse(Field(job, "description"), JStr(NoDescription)),
     company |-> OrElse(Field(job, "company"), JStr(UnknownCompany)),
     location |-> OrElse(Field(job, "location"), JStr(NoLocation)),
     salary_from |-> OrElse(ParseInt(Field(job, "salary_from")), JNull),
     salary_to |-> OrElse(ParseInt(Field(job, "salary_to")), JNull),
     employment_type |-> OrElse(Field(job, "employment_type"), JStr(FullTime)),
     application_deadline |-> ParseDate(Field(job, "application_deadline")),
     qualifications |-> Qualifications(job),
     contact |-> OrElse(Field(job, "contact"), JStr(NoContact)),
     job_category |-> OrElse(Field(job, "job_category"), JStr(OtherCategory)),
     is_remote_work |-> JBool(Truthy(Field(job, "is_remote_work"))),
     number_of_opening |-> OrElse(ParseInt(Field(job, "number_of_opening")),
                                  JNum(1)),
     created_at |-> OrElse(ParseDate(Field(job, "created_at")), IsoString(time)),
     updated_at |-> OrElse(ParseDate(Field(job, "updated_at")), IsoString(time)),
     source |-> JStr(SourceApi)]

\* normalizeJob(job): the record, or null when the try block has thrown
NormalizeJob(job, time, rnd) ==
    IF ReadThrows(job) THEN JNull ELSE JObj(NormalizedJob(job, time, rnd))

\* no element is filtered out
NotNullAny(result) == TRUE

\* job => job !== null
NotNull(result) == result.t # "null"

\* jobs.map(job => this.normalizeJob(job)).filter(job => job !== null), the
\* i-th call drawing rnd[i]
RECURSIVE MapFilter(_, _, _, _)
MapFilter(items, i, time, rnd) ==
    IF i > Len(items) THEN <<>>
    ELSE LET result == NormalizeJob(items[i], time, rnd[i])
         IN  (IF NotNull(result) THEN <<result>> ELSE <<>>)
                \o MapFilter(items, i + 1, time, rnd)

\* normalizeJobs(jobs)
NormalizeJobs(jobs, time, rnd) ==
    IF ~IsArray(jobs) THEN <<>> ELSE MapFilter(jobs.v, 1, time, rnd)

\* the two functions called on their own
NormalizeJobCall(job, rnd) ==
    /\ ret' = Returned("normalizeJob", <<job>>, <<NormalizeJob(job, now, rnd)>>)
    /\ events' = <<>>
    /\ UNCHANGED <<userRole, theme, applications, userJobs, savedJobs, filters,
                   currentPage, allJobs, filteredJobs, storage, storageFails,
                   exported, now, nextId, appliedOk,
                   api,
                   eventListeners>>

NormalizeJobsCall(jobs, rnd) ==
    /\ ret' = Returned("normalizeJobs", <<jobs>>, <<NormalizeJobs(jobs, now, rnd)>>)
    /\ events' = <<>>
    /\ UNCHANGED <<userRole, theme, applications, userJobs, savedJobs, filters,
                   currentPage, allJobs, filteredJobs, storage, storageFails,
                   exported, now, nextId, appliedOk,
                   api,
                   eventListeners>>

(***************************************************************************)
(* fetchJobs: the call either resolves from the cache at once or issues an *)
(* upstream request, whose response or failure resolves it later.          *)
(***************************************************************************)
\* this.cacheTimeout, in milliseconds
cacheTimeout == 5 * 60 * 1000

\* new Date(Date.now() + days * 24 * 60 * 60 * 1000).toISOString(): the
\* instant is kept as the pair, the sum being beyond the integers of TLC
IsoStringDays(time, days) == JStr(<<"iso", time, days>>)

MockJob1(time) ==
    JObj(
    [id |-> JStr(<<"m", "o", "c", "k", "_", "1">>),
     title |->
         JStr(<<"F", "r", "o", "n", "t", "e", "n", "d", " ",
         "D", "e", "v", "e", "l", "o", "p", "e", "r">>),
     description |->
         JStr(<<"W", "e", " ", "a", "r", "e", " ", "l", "o",
         "o", "k", "i", "n", "g", " ", "f", "o", "r", " ", "a", " ", "s",
         "k", "i", "l", "l", "e", "d", " ", "F", "r", "o", "n", "t", "e",
         "n", "d", " ", "D", "e", "v", "e", "l", "o", "p", "e", "r", " ",
         "t", "o", " ", "j", "o", "i", "n", " ", "o", "u", "r", " ", "t",
         "e", "a", "m", ".", " ", "Y", "o", "u", " ", "w", "i", "l", "l",
         " ", "b", "e", " ", "r", "e", "s", "p", "o", "n", "s", "i", "b",
         "l", "e", " ", "f", "o", "r", " ", "b", "u", "i", "l", "d", "i",
         "n", "g", " ", "u", "s", "e", "r", "-", "f", "a", "c", "i", "n",
         "g", " ", "w", "e", "b", " ", "a", "p", "p", "l", "i", "c", "a",
         "t", "i", "o", "n", "s", " ", "u", "s", "i", "n", "g", " ", "m",
         "o", "d", "e", "r", "n", " ", "J", "a", "v", "a", "S", "c", "r",
         "i", "p", "t", " ", "f", "r", "a", "m", "e", "w", "o", "r", "k",
         "s", ".">>),
     company |->
         JStr(<<"T", "e", "c", "h", " ", "S", "o", "l", "u",
         "t", "i", "o", "n", "s", " ", "I", "n", "c">>),
     location |->
         JStr(<<"S", "a", "n", " ", "F", "r", "a", "n", "c",
         "i", "s", "c", "o", ",", " ", "C", "A">>),
     salary_from |-> JNum(80000),
     salary_to |-> JNum(120000),
     employment_type |-> JStr(<<"F", "u", "l", "l", "-", "t", "i", "m", "e">>),
     application_deadline |-> IsoStringDays(time, 30),
     qualifications |->
         JArr(<<JStr(<<"3", "+", " ", "y", "e", "a", "r", "s",
             " ", "R", "e", "a", "c", "t", " ", "e", "x", "p", "e", "r", "i",
             "e", "n", "c", "e">>),
         JStr(<<"J", "a", "v", "a", "S", "c", "r", "i",
             "p", "t", "/", "T", "y", "p", "e", "S", "c", "r", "i", "p", "t",
             " ", "p", "r", "o", "f", "i", "c", "i", "e", "n", "c", "y">>),
         JStr(<<"C", "S", "S", "/", "H", "T", "M", "L",
             " ", "e", "x", "p", "e", "r", "t", "i", "s", "e">>)>>),
     contact |->
         JStr(<<"h", "r", "@", "t", "e", "c", "h", "s", "o",
         "l", "u", "t", "i", "o", "n", "s", ".", "c", "o", "m">>),
     job_category |->
         JStr(<<"S", "o", "f", "t", "w", "a", "r", "e", " ",
         "E", "n", "g", "i", "n", "e", "e", "r">>),
     is_remote_work |-> JBool(TRUE),
     number_of_opening |-> JNum(2),
     created_at |-> IsoString(time),
     updated_at |-> IsoString(time),
     source |-> JStr(<<"m", "o", "c", "k">>)])

MockJob2(time) ==
    JObj(
    [id |-> JStr(<<"m", "o", "c", "k", "_", "2">>),
     title |->
         JStr(<<"D", "a", "t", "a", " ", "S", "c", "i", "e",
         "n", "t", "i", "s", "t">>),
     description |->
         JStr(<<"J", "o", "i", "n", " ", "o", "u", "r", " ",
         "d", "a", "t", "a", " ", "t", "e", "a", "m", " ", "t", "o", " ",
         "w", "o", "r", "k", " ", "o", "n", " ", "m", "a", "c", "h", "i",
         "n", "e", " ", "l", "e", "a", "r", "n", "i", "n", "g", " ", "p",
         "r", "o", "j", "e", "c", "t", "s", " ", "a", "n", "d", " ", "h",
         "e", "l", "p", " ", "d", "r", "i", "v", "e", " ", "b", "u", "s",
         "i", "n", "e", "s", "s", " ", "i", "n", "s", "i", "g", "h", "t",
         "s", " ", "t", "h", "r", "o", "u", "g", "h", " ", "d", "a", "t",
         "a", " ", "a", "n", "a", "l", "y", "s", "i", "s", ".">>),
     company |-> JStr(<<"D", "a", "t", "a", " ", "C", "o", "r", "p">>),
     location |->
         JStr(<<"N", "e", "w", " ", "Y", "o", "r", "k", ",",
         " ", "N", "Y">>),
     salary_from |-> JNum(90000),
     salary_to |-> JNum(140000),
     employment_type |-> JStr(<<"F", "u", "l", "l", "-", "t", "i", "m", "e">>),
     application_deadline |-> IsoStringDays(time, 45),
     qualifications |->
         JArr(<<JStr(<<"P", "y", "t", "h", "o", "n", "/", "R",
             " ", "p", "r", "o", "f", "i", "c", "i", "e", "n", "c", "y">>),
         JStr(<<"M", "a", "c", "h", "i", "n", "e", " ",
             "L", "e", "a", "r", "n", "i", "n", "g", " ", "e", "x", "p", "e",
             "r", "i", "e", "n", "c", "e">>),
         JStr(<<"S", "t", "a", "t", "i", "s", "t", "i",
             "c", "s", " ", "b", "a", "c", "k", "g", "r", "o", "u", "n", "d">>)>>),
     contact |->
         JStr(<<"c", "a", "r", "e", "e", "r", "s", "@", "d",
         "a", "t", "a", "c", "o", "r", "p", ".", "c", "o", "m">>),
     job_category |->
         JStr(<<"D", "a", "t", "a", " ", "S", "c", "i", "e",
         "n", "t", "i", "s", "t">>),
     is_remote_work |-> JBool(FALSE),
     number_of_opening |-> JNum(1),
     created_at |-> IsoStringDays(time, 0 - 7),
     updated_at |-> IsoStringDays(time, 0 - 7),
     source |-> JStr(<<"m", "o", "c", "k">>)])

MockJob3(time) ==
    JObj(
    [id |-> JStr(<<"m", "o", "c", "k", "_", "3">>),
     title |->
         JStr(<<"F", "u", "l", "l", "-", "S", "t", "a", "c",
         "k", " ", "D", "e", "v", "e", "l", "o", "p", "e", "r">>),
     description |->
         JStr(<<"L", "o", "o", "k", "i", "n", "g", " ", "f",
         "o", "r", " ", "a", " ", "v", "e", "r", "s", "a", "t", "i", "l",
         "e", " ", "f", "u", "l", "l", "-", "s", "t", "a", "c", "k", " ",
         "d", "e", "v", "e", "l", "o", "p", "e", "r", " ", "t", "o", " ",
         "w", "o", "r", "k", " ", "o", "n", " ", "b", "o", "t", "h", " ",
         "f", "r", "o", "n", "t", "e", "n", "d", " ", "a", "n", "d", " ",
         "b", "a", "c", "k", "e", "n", "d", " ", "s", "y", "s", "t", "e",
         "m", "s", ".">>),
     company |->
         JStr(<<"S", "t", "a", "r", "t", "u", "p", " ", "H",
         "u", "b">>),
     location |->
         JStr(<<"A", "u", "s", "t", "i", "n", ",", " ", "T",
         "X">>),
     salary_from |-> JNum(70000),
     salary_to |-> JNum(100000),
     employment_type |-> JStr(<<"C", "o", "n", "t", "r", "a", "c", "t">>),
     application_deadline |-> IsoStringDays(time, 20),
     qualifications |->
         JArr(<<JStr(<<"N", "o", "d", "e", ".", "j", "s", " ",
             "e", "x", "p", "e", "r", "i", "e", "n", "c", "e">>),
         JStr(<<"R", "e", "a", "c", "t", "/", "V", "u",
             "e", ".", "j", "s", " ", "s", "k", "i", "l", "l", "s">>),
         JStr(<<"D", "a", "t", "a", "b", "a", "s", "e",
             " ", "k", "n", "o", "w", "l", "e", "d", "g", "e">>)>>),
     contact |->
         JStr(<<"j", "o", "b", "s", "@", "s", "t", "a", "r",
         "t", "u", "p", "h", "u", "b", ".", "i", "o">>),
     job_category |->
         JStr(<<"F", "u", "l", "l", "-", "s", "t", "a", "c",
         "k", " ", "D", "e", "v", "e", "l", "o", "p", "e", "r">>),
     is_remote_work |-> JBool(TRUE),
     number_of_opening |-> JNum(3),
     created_at |-> IsoStringDays(time, 0 - 2),
     updated_at |-> IsoStringDays(time, 0 - 2),
     source |-> JStr(<<"m", "o", "c", "k">>)])

\* getMockJobs() at the instant time
GetMockJobs(time) == <<MockJob1(time), MockJob2(time), MockJob3(time)>>

\* the freshness test with <= in place of <
CacheFreshInclusive(a, time) ==
    /\ a.cache # Null
    /\ a.lastFetch # Null /\ a.lastFetch[1] # 0
    /\ time - a.lastFetch[1] <= cacheTimeout

\* this.cache && this.lastFetch && (Date.now() - this.lastFetch < this.cacheTimeout)
CacheFresh(a, time) ==
    /\ a.cache # Null
    /\ a.lastFetch # Null /\ a.lastFetch[1] # 0
    /\ time - a.lastFetch[1] < cacheTimeout

\* fetchJobs() up to its first await: the cache, or a request to the upstream
FetchJobs ==
    /\ ~CacheFresh(api, now) => api.requests < MaxFetch
    /\ IF CacheFresh(api, now)
       THEN /\ ret' = Returned("fetchJobs", <<>>, api.cache)
            /\ UNCHANGED api
       ELSE /\ api' = [api EXCEPT !.requests = @ + 1,
                                  !.pending = @ \cup {api.requests + 1}]
            /\ ret' = Returned("fetch", <<api.requests + 1>>, Null)
    /\ events' = <<>>
    /\ UNCHANGED <<userRole, theme, applications, userJobs, savedJobs, filters,
                   currentPage, allJobs, filteredJobs, storage, storageFails,
                   exported, now, nextId, appliedOk,
                   eventListeners>>

\* the response is ok and its body parses to data: normalise, cache, resolve
FetchSucceeds(request, data, rnd) ==
    /\ request \in api.pending
    /\ LET normalizedJobs == NormalizeJobs(data, now, rnd)
       IN  /\ api' = [api EXCEPT !.cache = <<normalizedJobs>>,
                                 !.lastFetch = <<now>>,
                                 !.pending = @ \ {request}]
           /\ ret' = Returned("fetchJobs", <<request>>, <<normalizedJobs>>)
    /\ events' = <<>>
    /\ UNCHANGED <<userRole, theme, applications, userJobs, savedJobs, filters,
                   currentPage, allJobs, filteredJobs, storage, storageFails,
                   exported, now, nextId, appliedOk,
                   eventListeners>>

\* the catch resolving with the mock jobs whether or not there is a cache
FetchFailsMockOnly(request) ==
    /\ request \in api.pending
    /\ api' = [api EXCEPT !.pending = @ \ {request}]
    /\ ret' = Returned("fetchJobs", <<request>>, <<GetMockJobs(now)>>)
    /\ events' = <<>>
    /\ UNCHANGED <<userRole, theme, applications, userJobs, savedJobs, filters,
                   currentPage, allJobs, filteredJobs, storage, storageFails,
                   exported, now, nextId, appliedOk,
                   eventListeners>>

\* fetch rejects, the status is not ok, or the body does not parse: the catch
\* resolves with the cache if there is one, else with the mock jobs
FetchFails(request) ==
    /\ request \in api.pending
    /\ api' = [api EXCEPT !.pending = @ \ {request}]
    /\ ret' = Returned("fetchJobs", <<request>>,
                       IF api.cache # Null THEN api.cache
                       ELSE <<GetMockJobs(now)>>)
    /\ events' = <<>>
    /\ UNCHANGED <<userRole, theme, applications, userJobs, savedJobs, filters,
                   currentPage, allJobs, filteredJobs, storage, storageFails,
                   exported, now, nextId, appliedOk,
                   eventListeners>>

ClearCache ==
    /\ api' = [api EXCEPT !.cache = Null, !.lastFetch = Null]
    /\ ret' = Returned("clearCache", <<>>, Null)
    /\ events' = <<>>
    /\ UNCHANGED <<userRole, theme, applications, userJobs, savedJobs, filters,
                   currentPage, allJobs, filteredJobs, storage, storageFails,
                   exported, now, nextId, appliedOk,
                   eventListeners>>

\* half a cache window passes
Elapse ==
    /\ now < MaxElapsed * (cacheTimeout \div 2)
    /\ now' = now + cacheTimeout \div 2
    /\ UNCHANGED <<userRole, theme, applications, userJobs, savedJobs, filters,
                   currentPage, allJobs, filteredJobs, storage, storageFails,
                   exported, nextId, events, ret, appliedOk, api,
                   eventListeners>>

(***************************************************************************)
(* Inputs.  Canonical job records as the fetch layer hands them to         *)
(* setAllJobs: the fields the store reads, normalised.  Salaries are in    *)
(* thousands, created_at in days.                                          *)
(***************************************************************************)
Job(id, title, company, description, location, category, remote, from, to, created) ==
    [id |-> id, title |-> title, company |-> company, description |-> description,
     location |-> location, job_category |-> category, is_remote_work |-> remote,
     salary_from |-> from, salary_to |-> to, created_at |-> created,
     updated_at |-> created, source |-> "api"]

JobA == Job("j1", <<"D", "e", "v">>, <<"a">>, <<"q">>, <<"N", "Y">>, "Eng", TRUE,
            <<50>>, <<70>>, 2)
JobB == Job("j2", <<"o", "p", "s">>, <<"D", "E", "V">>, <<"q">>, <<"s", "f">>, "Ops",
            FALSE, Null, Null, 3)
JobC == Job("j3", <<"q", "a">>, <<"a">>, <<"d", "e", "v">>, <<"n", "y">>, "eng", TRUE,
            <<100>>, <<120>>, 1)
JobZ == Job("j4", <<"o", "p", "s">>, <<"a">>, <<"q">>, <<"s", "f">>, "Ops", TRUE,
            <<0>>, <<100>>, 2)

Ann == [name |-> "Ann", email |-> "a@x.com"]

ApplicantDetails ==
    { Ann,
      [name |-> "Eve", email |-> "e@x.com", jobId |-> "j2"],
      [name |-> "Mal", email |-> "m@x.com", status |-> "hired"] }

ApplyJobIds == {"j1", "j2", "j9"}

ImportedApplication(id, jobId) ==
    [id |-> id, jobId |-> jobId, jobTitle |-> <<"D", "e", "v">>, company |-> <<"a">>,
     appliedAt |-> 0, status |-> "pending", name |-> "Ann", email |-> "a@x.com"]

(***************************************************************************)
(* SpecApply: applications against a changing job collection.              *)
(***************************************************************************)
ApplySnapshots ==
    { Null,
      <<[applications |-> <<>>]>>,
      <<[applications |-> <<ImportedApplication("app_8", "j1"),
                            ImportedApplication("app_9", "j1")>>]>> }

NextApply ==
    \/ \E jobs \in {<<>>, <<JobA, JobB>>} : SetAllJobs(jobs)
    \/ \E id \in {"j1"} : DeleteJob(id)
    \/ \E id \in {"j1"} : UpdateJob(id, [title |-> <<"q", "a">>])
    \/ \E id \in ApplyJobIds, d \in ApplicantDetails : ApplyForJob(id, d)
    \/ \E data \in ApplySnapshots : ImportData(data)
    \/ ClearAllData

SpecApply == Init /\ [][NextApply]_vars


(***************************************************************************)
(* Claims about applyForJob, checked under SpecApply.                      *)
(***************************************************************************)
NoJobWithId(jobs, id) == \A i \in 1..Len(jobs) : jobs[i].id # id
NoApplicationFor(apps, id) == \A i \in 1..Len(apps) : apps[i].jobId # id

\* C1: once applyForJob(x, d) has succeeded and neither clearAllData nor
\* importData has run since, every later applyForJob(x, d') throws the
\* duplicate-application error, leaves applications unchanged and emits
\* nothing.
C1_DuplicateGuard ==
    [][\A x \in ApplyJobIds, d \in ApplicantDetails :
          (ret'.op = "applyForJob" /\ x \in appliedOk /\ ApplyForJob(x, d))
             => /\ ret'.error = ErrDuplicate
                /\ applications' = applications
                /\ events' = <<>>]_vars

\* C2: in every reachable state the applications collection holds at most
\* one Application per jobId.
C2_OneApplicationPerJob ==
    \A i, k \in 1..Len(applications) :
        i # k => applications[i].jobId # applications[k].jobId

\* C3: applyForJob(id, d) with id absent from allJobs and no application for
\* id throws the job-not-found error, leaves applications unchanged, persists
\* nothing and emits nothing, also when the job was removed by deleteJob.
C3_JobNotFound ==
    [][\A id \in ApplyJobIds, d \in ApplicantDetails :
          (/\ ret'.op = "applyForJob"
           /\ NoJobWithId(allJobs, id)
           /\ NoApplicationFor(applications, id)
           /\ ApplyForJob(id, d))
             => /\ ret'.error = ErrNotFound
                /\ ret'.value = Null
                /\ applications' = applications
                /\ storage' = storage
                /\ events' = <<>>]_vars

\* C3 witness: applyForJob("j1", d) was refused as not found while another
\* job is listed, which only a deleteJob("j1") brings about, and an
\* application already exists for another job.
C3_Witness ==
    /\ ret.op = "applyForJob"
    /\ ret.args[1] = "j1"
    /\ ret.error = ErrNotFound
    /\ Len(allJobs) = 1
    /\ allJobs[1].id = "j2"
    /\ Len(applications) = 1

\* C4: whenever applyForJob(id, d) succeeds, the returned Application is the
\* one appended to applications, has status pending, jobId = id, jobTitle and
\* company equal to the job's at that moment, and exactly one
\* applicationSubmitted carrying that record is emitted.
C4_CreatedApplication ==
    [][\A id \in ApplyJobIds, d \in ApplicantDetails :
          (ret'.op = "applyForJob" /\ ApplyForJob(id, d) /\ ret'.error = "")
             => /\ ret'.value # Null
                /\ applications' = Append(applications, ret'.value[1])
                /\ ret'.value[1].status = "pending"
                /\ ret'.value[1].jobId = id
                /\ \E i \in 1..Len(allJobs) :
                      /\ allJobs[i].id = id
                      /\ ret'.value[1].jobTitle = allJobs[i].title
                      /\ ret'.value[1].company = allJobs[i].company
                /\ Len(events') = 1
                /\ events'[1].name = "applicationSubmitted"
                /\ events'[1].data = ret'.value[1]]_vars


(***************************************************************************)
(* SpecSaved: the saved-job references.                                    *)
(***************************************************************************)
SaveJobIds == {"j1", "j2", "j3"}

SavedSnapshots ==
    { <<[savedJobs |-> <<"j2">>]>>,
      <<[savedJobs |-> <<"j1", "j1">>]>> }

NextSaved ==
    \/ \E id \in SaveJobIds : SaveJob(id)
    \/ \E id \in SaveJobIds : UnsaveJob(id)
    \/ \E data \in SavedSnapshots : ImportData(data)
    \/ ClearAllData

SpecSaved == Init /\ [][NextSaved]_vars

\* C5: saveJob(x) on a saved x and unsaveJob(x) on an unsaved x leave savedJobs
\* unchanged and emit nothing; otherwise the membership of x flips and exactly
\* one jobSaved / jobUnsaved carrying x is emitted.
C5_SaveUnsaveIdempotent ==
    [][\A x \in SaveJobIds :
          /\ (ret'.op = "saveJob" /\ SaveJob(x)) =>
                IF \E i \in 1..Len(savedJobs) : savedJobs[i] = x
                THEN savedJobs' = savedJobs /\ events' = <<>>
                ELSE /\ \E i \in 1..Len(savedJobs') : savedJobs'[i] = x
                     /\ Len(events') = 1
                     /\ events'[1].name = "jobSaved"
                     /\ events'[1].data = x
          /\ (ret'.op = "unsaveJob" /\ UnsaveJob(x)) =>
                IF \A i \in 1..Len(savedJobs) : savedJobs[i] # x
                THEN savedJobs' = savedJobs /\ events' = <<>>
                ELSE /\ \A i \in 1..Len(savedJobs') : savedJobs'[i] # x
                     /\ Len(events') = 1
                     /\ events'[1].name = "jobUnsaved"
                     /\ events'[1].data = x]_vars


(***************************************************************************)
(* SpecPage: pagination over a large collection.                           *)
(***************************************************************************)
BigJob(i) ==
    Job("b" \o ToString(i), <<"q", "a">>, <<"a">>, <<"q">>, <<"s", "f">>, "Eng",
        i % 2 = 0, <<i>>, <<i + 1>>, i % 3)

BigJobs == [i \in 1..BigCount |-> BigJob(i)]

PageArgs == {-1, 0, 1, 2, 3, 5}

PagePartials ==
    { [remoteOnly |-> TRUE],
      [remoteOnly |-> FALSE],
      [category |-> "none"],
      [category |-> "", sort |-> "oldest"],
      [search |-> <<"Q">>, remoteOnly |-> FALSE] }

NextPage ==
    \/ \E jobs \in {<<>>, <<JobA, JobB, JobC>>, BigJobs} : SetAllJobs(jobs)
    \/ \E nf \in PagePartials : SetFilters(nf)
    \/ ResetFilters
    \/ \E n \in PageArgs : SetPage(n)

SpecPage == Init /\ [][NextPage]_vars

\* ceil(n / 9), at least 1
PagesFor(n) ==
    IF n = 0 THEN 1
    ELSE CHOOSE p \in 1..n : (p - 1) * 9 < n /\ n <= p * 9

\* C6: setPage(n) sets currentPage to n clamped into [1, totalPages], with
\* totalPages = max(1, ceil(filteredCount / 9)) (20 jobs give 3 pages, none
\* gives 1); if the clamped value is the current page nothing changes and
\* nothing is emitted, otherwise exactly one pageChanged carrying the new
\* pagination info is emitted.
C6_SetPageClamps ==
    [][\A n \in PageArgs :
          (ret'.op = "setPage" /\ SetPage(n)) =>
             LET total == PagesFor(Len(filteredJobs))
                 clamped == IF n < 1 THEN 1 ELSE IF n > total THEN total ELSE n
             IN  /\ currentPage' = clamped
                 /\ Len(filteredJobs) = 20 => total = 3
                 /\ IF clamped = currentPage
                    THEN /\ events' = <<>>
                         /\ UNCHANGED <<filters, filteredJobs, allJobs, storage>>
                    ELSE /\ Len(events') = 1
                         /\ events'[1].name = "pageChanged"
                         /\ events'[1].data.currentPage = clamped
                         /\ events'[1].data.totalPages = total
                         /\ events'[1].data.totalItems = Len(filteredJobs)
                         /\ events'[1].data.hasPrevPage = (clamped > 1)
                         /\ events'[1].data.hasNextPage = (clamped < total)]_vars

\* C6 witness: setPage(5) over the large collection was clamped to the last
\* of its three pages and notified.
C6_Witness ==
    /\ ret.op = "setPage"
    /\ ret.args[1] = 5
    /\ Len(filteredJobs) = BigCount
    /\ currentPage = 3
    /\ Len(events) = 1
    /\ events[1].name = "pageChanged"

\* C9: after setFilters(partial) every key of partial has the new value, every
\* other key keeps its value, currentPage is 1 and the persisted filter entry
\* equals the new FilterState.
C9_SetFiltersMerges ==
    [][\A nf \in PagePartials :
          (ret'.op = "setFilters" /\ SetFilters(nf)) =>
             /\ DOMAIN filters' = DOMAIN filters
             /\ \A k \in DOMAIN filters :
                   filters'[k] = IF k \in DOMAIN nf THEN nf[k] ELSE filters[k]
             /\ currentPage' = 1
             /\ storage'["FILTERS"] = <<filters'>>]_vars

\* C9 witness: setFilters({remoteOnly: true}) ran on a FilterState whose
\* category had been set before, and the category is still there.
C9_Witness ==
    /\ ret.op = "setFilters"
    /\ ret.args[1] = [remoteOnly |-> TRUE]
    /\ filters.remoteOnly
    /\ filters.category = "none"
    /\ currentPage = 1
    /\ storage["FILTERS"] = <<filters>>


(***************************************************************************)
(* SpecFilter: the filtered view over every FilterState of the model.      *)
(***************************************************************************)
SortKeys == {"newest", "oldest", "salary_high", "salary_low", "relevance"}

FilterPartials ==
    { [search |-> <<>>], [search |-> <<"E", "V">>],
      [remoteOnly |-> TRUE], [remoteOnly |-> FALSE],
      [category |-> ""], [category |-> "Eng"],
      [location |-> <<>>], [location |-> <<"N">>] }
    \cup { [sort |-> k] : k \in SortKeys }

FilterCollections ==
    { <<JobA, JobB, JobC>>,
      <<JobA, JobB, JobC, JobZ>>,
      <<JobZ, JobC, JobB, JobA>> }

NextFilter ==
    \/ \E jobs \in FilterCollections : SetAllJobs(jobs)
    \/ \E nf \in FilterPartials : SetFilters(nf)
    \/ ResetFilters

SpecFilter == Init /\ [][NextFilter]_vars

Elements(s) == {s[i] : i \in 1..Len(s)}

\* term occurs in text, letter case ignored
ContainsIgnoringCase(text, term) ==
    \E k \in 0..(Len(text) - Len(term)) :
        \A i \in 1..Len(term) : LowerChar(text[k + i]) = LowerChar(term[i])

MatchesSearch(job, f) ==
    \/ f.search = <<>>
    \/ ContainsIgnoringCase(job.title, f.search)
    \/ ContainsIgnoringCase(job.company, f.search)
    \/ ContainsIgnoringCase(job.description, f.search)

MatchesRemote(job, f) == ~f.remoteOnly \/ job.is_remote_work = TRUE

MatchesAll(job, f) ==
    /\ MatchesSearch(job, f)
    /\ MatchesRemote(job, f)
    /\ f.category = "" \/ job.job_category = f.category
    /\ f.location = <<>> \/ ContainsIgnoringCase(job.location, f.location)

\* C7: a job is in getFilteredJobs() if and only if it satisfies all active
\* predicates (search, remoteOnly, category, location) together, and the view
\* under {search, remoteOnly} is exactly the intersection of the view under
\* the search alone and the view under remoteOnly alone.
C7_FiltersConjunctive ==
    /\ Elements(filteredJobs) = {job \in Elements(allJobs) : MatchesAll(job, filters)}
    /\ Len(filteredJobs) = Cardinality(Elements(filteredJobs))
    /\ (filters.search # <<>> /\ filters.remoteOnly)
          => Elements(filteredJobs) =
                Elements(ApplyFilters(allJobs, [filters EXCEPT !.remoteOnly = FALSE]))
                   \cap
                Elements(ApplyFilters(allJobs, [filters EXCEPT !.search = <<>>]))

\* C7 witness: under a search term and remoteOnly, with no other filter, the
\* view keeps some jobs, drops a job that only matches the search and drops a
\* job that is only remote.
C7_Witness ==
    /\ filters.search # <<>>
    /\ filters.remoteOnly
    /\ filters.category = ""
    /\ filters.location = <<>>
    /\ filteredJobs # <<>>
    /\ \E job \in Elements(allJobs) \ Elements(filteredJobs) :
          MatchesSearch(job, filters) /\ ~job.is_remote_work
    /\ \E job \in Elements(allJobs) \ Elements(filteredJobs) :
          ~MatchesSearch(job, filters) /\ job.is_remote_work

Missing(job) == job.salary_from = Null \/ job.salary_to = Null

\* twice the average of the two bounds, 0 when one is missing
DoubleAverage(job) ==
    IF Missing(job) THEN 0 ELSE job.salary_from[1] + job.salary_to[1]

\* C8: the view is ordered by the selected key: newest and any unrecognised
\* key by created_at non-increasing, oldest by created_at non-decreasing,
\* salary_high by average salary non-increasing with a job missing a bound
\* counted as 0, salary_low by average non-decreasing with a job missing a
\* bound counted as +infinity; so A, B, C of the example sort to [C, A, B]
\* and [A, C, B], and jobs without salary come last under both salary orders.
C8_SortedByKey ==
    /\ \A i \in 1..(Len(filteredJobs) - 1) :
          LET a == filteredJobs[i]
              b == filteredJobs[i + 1]
          IN  CASE filters.sort = "oldest" -> a.created_at <= b.created_at
                [] filters.sort = "salary_high" -> DoubleAverage(a) >= DoubleAverage(b)
                [] filters.sort = "salary_low" ->
                      \/ Missing(b)
                      \/ ~Missing(a) /\ DoubleAverage(a) <= DoubleAverage(b)
                [] OTHER -> a.created_at >= b.created_at
    /\ (filters.sort = "salary_high" /\ Elements(filteredJobs) = {JobA, JobB, JobC})
          => filteredJobs = <<JobC, JobA, JobB>>
    /\ (filters.sort = "salary_low" /\ Elements(filteredJobs) = {JobA, JobB, JobC})
          => filteredJobs = <<JobA, JobC, JobB>>
    /\ filters.sort \in {"salary_high", "salary_low"}
          => \A i, k \in 1..Len(filteredJobs) :
                (Missing(filteredJobs[i]) /\ ~Missing(filteredJobs[k])) => k < i


(***************************************************************************)
(* SpecAdd: recruiter postings next to fetched jobs, under changing        *)
(* filters and an advancing clock.                                         *)
(***************************************************************************)
JobData(title, remote) ==
    [title |-> title, company |-> <<"a">>, description |-> <<"q">>,
     location |-> <<"s", "f">>, job_category |-> "Eng", is_remote_work |-> remote,
     salary_from |-> <<60>>, salary_to |-> <<80>>]

AddJobData == { JobData(<<"D", "e", "v">>, TRUE), JobData(<<"q", "a">>, FALSE) }

AddPartials ==
    { [remoteOnly |-> TRUE], [remoteOnly |-> FALSE],
      [sort |-> "oldest"], [sort |-> "newest"],
      [search |-> <<"d", "e">>], [search |-> <<>>] }

NextAdd ==
    \/ \E jobs \in {<<>>, <<JobA, JobB>>} : SetAllJobs(jobs)
    \/ \E jobData \in AddJobData : AddJob(jobData)
    \/ \E nf \in AddPartials : SetFilters(nf)
    \/ Tick

SpecAdd == Init /\ [][NextAdd]_vars

\* C10: each setFilters emits filtersChanged and then jobsUpdated, each addJob
\* emits jobAdded and then jobsUpdated, each exactly once and in that order,
\* and the jobsUpdated payload is the filtered view recomputed after the
\* mutation.
C10_NotificationOrder ==
    [][/\ \A nf \in AddPartials :
             (ret'.op = "setFilters" /\ SetFilters(nf)) =>
                /\ Len(events') = 2
                /\ events'[1].name = "filtersChanged"
                /\ events'[1].data = filters'
                /\ events'[2].name = "jobsUpdated"
                /\ events'[2].data = filteredJobs'
                /\ Elements(events'[2].data) =
                      {job \in Elements(allJobs') : MatchesAll(job, filters')}
       /\ \A jobData \in AddJobData :
             (ret'.op = "addJob" /\ AddJob(jobData)) =>
                /\ Len(events') = 2
                /\ events'[1].name = "jobAdded"
                /\ events'[1].data = ret'.value[1]
                /\ events'[2].name = "jobsUpdated"
                /\ events'[2].data = filteredJobs'
                /\ Elements(events'[2].data) =
                      {job \in Elements(allJobs') : MatchesAll(job, filters')}]_vars

\* C10 witness: an addJob whose new job passes the active remote-only filter
\* and is carried by the jobsUpdated that follows jobAdded.
C10_Witness ==
    /\ ret.op = "addJob"
    /\ filters.remoteOnly
    /\ Len(events) = 2
    /\ events[2].name = "jobsUpdated"
    /\ \E i \in 1..Len(events[2].data) : events[2].data[i] = ret.value[1]
    /\ Len(events[2].data) < Len(allJobs)


(***************************************************************************)
(* SpecJobs: the recruiter's add, update and delete next to the jobs the   *)
(* application loads (the fetched jobs followed by the user's own) and an  *)
(* advancing clock.  SpecStale adds the import of a filter record.         *)
(***************************************************************************)
JobIds == {"j1", "user_job_1"}

\* what the post-job form submits, and a record that carries the
\* store-assigned fields itself
JobsData ==
    { JobData(<<"D", "e", "v">>, TRUE),
      Merge(JobData(<<"q", "a">>, FALSE),
            [id |-> "j1", created_at |-> 7, updated_at |-> 7, source |-> "api"]) }

Patches ==
    { [title |-> <<"q", "a">>],
      [is_remote_work |-> FALSE, updated_at |-> 9] }

JobsSnapshots == { <<[filters |-> [remoteOnly |-> TRUE]]>> }

NextJobs ==
    \/ \E apiJobs \in {<<JobA, JobB>>} : SetAllJobs(apiJobs \o userJobs)
    \/ \E jobData \in JobsData : AddJob(jobData)
    \/ \E id \in JobIds, patch \in Patches : UpdateJob(id, patch)
    \/ \E id \in JobIds : DeleteJob(id)
    \/ Tick

SpecJobs == Init /\ [][NextJobs]_vars

NextStale ==
    \/ NextJobs
    \/ \E data \in JobsSnapshots : ImportData(data)

SpecStale == Init /\ [][NextStale]_vars

\* C11: updateJob(id, patch) with id in neither userJobs nor allJobs does not
\* throw and leaves allJobs, userJobs, the filtered view, applications,
\* savedJobs and the persisted user-jobs entry unchanged.
C11_UnknownIdNoOp ==
    [][\A id \in JobIds, patch \in Patches :
          (/\ ret'.op = "updateJob"
           /\ NoJobWithId(userJobs, id)
           /\ NoJobWithId(allJobs, id)
           /\ UpdateJob(id, patch))
             => /\ ret'.error = ""
                /\ allJobs' = allJobs
                /\ userJobs' = userJobs
                /\ filteredJobs' = filteredJobs
                /\ applications' = applications
                /\ savedJobs' = savedJobs
                /\ storage'["USER_JOBS"] = storage["USER_JOBS"]]_vars

\* C12: every jobUpdated notification carries a non-null record whose id is
\* the id passed to updateJob and which is the record now held for that id in
\* allJobs.
C12_JobUpdatedPayload ==
    \A i \in 1..Len(events) :
        events[i].name = "jobUpdated"
            => /\ events[i].data # Null
               /\ events[i].data[1].id = ret.args[1]
               /\ FindJob(allJobs, ret.args[1]) = events[i].data

\* the job with this id is one record, held by both collections
InBoth(id) ==
    /\ FindJob(userJobs, id) # Null
    /\ FindJob(allJobs, id) = FindJob(userJobs, id)

\* what C13 says of an updateJob step on a job held by both collections, but
\* for the fields of the patch: both collections hold the same new record at
\* the job's position, fields outside the patch other than updated_at keep
\* their values, no other job changes, the user-jobs entry is the new userJobs
UpdateFrame(id, patch) ==
    LET u == FindIndex(userJobs, id)
        a == FindIndex(allJobs, id)
        old == userJobs[u]
        new == userJobs'[u]
    IN  /\ ret'.error = ""
        /\ Len(userJobs') = Len(userJobs)
        /\ Len(allJobs') = Len(allJobs)
        /\ allJobs'[a] = new
        /\ DOMAIN new = (DOMAIN old) \cup (DOMAIN patch) \cup {"updated_at"}
        /\ \A k \in (DOMAIN old) \ ((DOMAIN patch) \cup {"updated_at"}) :
               new[k] = old[k]
        /\ \A i \in 1..Len(userJobs) : i # u => userJobs'[i] = userJobs[i]
        /\ \A i \in 1..Len(allJobs) : i # a => allJobs'[i] = allJobs[i]
        /\ storage'["USER_JOBS"] = <<userJobs'>>

C14_DeleteJob ==
    [][\A id \in JobIds :
          (ret'.op = "deleteJob" /\ DeleteJob(id))
             => /\ NoJobWithId(allJobs', id)
                /\ NoJobWithId(userJobs', id)
                /\ NoJobWithId(filteredJobs', id)
                /\ \A i \in 1..Len(allJobs') : \E k \in i..Len(allJobs) :
                       /\ allJobs[k] = allJobs'[i]
                       /\ Cardinality({m \in 1..k : allJobs[m].id # id}) = i
                /\ \A i \in 1..Len(userJobs') : \E k \in i..Len(userJobs) :
                       /\ userJobs[k] = userJobs'[i]
                       /\ Cardinality({m \in 1..k : userJobs[m].id # id}) = i
                /\ Len(allJobs') = Cardinality({m \in 1..Len(allJobs) : allJobs[m].id # id})
                /\ Len(userJobs') = Cardinality({m \in 1..Len(userJobs) : userJobs[m].id # id})
                /\ (filteredJobs = ApplyFilters(allJobs, filters)
                      => filteredJobs' = SelectSeq(filteredJobs, LAMBDA j : j.id # id))
                /\ (NoJobWithId(allJobs, id) /\ NoJobWithId(userJobs, id)
                      => allJobs' = allJobs /\ userJobs' = userJobs)
                /\ Len(events') = 2
                /\ events'[1] = Event("jobDeleted", id)
                /\ events'[2].name = "jobsUpdated"
                /\ events'[2].data = filteredJobs']_vars

\* deleteJob has removed both records that carried the id, a fetched job and
\* a posted one, and left the job between them
C14_Witness ==
    /\ ret.op = "deleteJob"
    /\ ret.args[1] = "j1"
    /\ Len(allJobs) = 1
    /\ allJobs[1] = JobB
    /\ userJobs = <<>>
    /\ storage["USER_JOBS"] = <<(<<>>)>>
    /\ nextId > 1

\* C15: for every data record given to addJob, also one that carries id,
\* created_at, updated_at or source, the job appended to userJobs and allJobs
\* has the id the store generated, different from every id already in
\* allJobs, the store's created_at and updated_at, and source user; it is
\* last in both collections and persisted in the user-jobs entry.
C15_StoreAssignedFields ==
    [][\A jobData \in JobsData :
          (ret'.op = "addJob" /\ AddJob(jobData))
             => LET job == allJobs'[Len(allJobs')]
                IN  /\ allJobs' = Append(allJobs, job)
                    /\ userJobs' = Append(userJobs, job)
                    /\ job.id = GenJobId(nextId)
                    /\ NoJobWithId(allJobs, job.id)
                    /\ job.created_at = now
                    /\ job.updated_at = now
                    /\ job.source = "user"
                    /\ storage'["USER_JOBS"] = <<userJobs'>>]_vars


(***************************************************************************)
(* SpecImport: backups with every subset of the six fields of a full       *)
(* snapshot, and the backup of an empty store, imported into a store whose *)
(* role and application statuses change; snapshots that cannot be          *)
(* imported; clearAllData.                                                 *)
(***************************************************************************)
SnapshotFields ==
    {"userRole", "applications", "userJobs", "savedJobs", "theme", "filters"}

PostedJob ==
    NewJob(JobData(<<"D", "e", "v">>, TRUE), "user_job_9", 0)

FullA ==
    [userRole |-> "recruiter",
     applications |-> <<ImportedApplication("app_8", "j1"),
                        ImportedApplication("app_9", "j2")>>,
     userJobs |-> <<PostedJob>>,
     savedJobs |-> <<"j1", "j2">>,
     theme |-> "dark",
     filters |-> [search |-> <<"d", "e">>, sort |-> "oldest", remoteOnly |-> TRUE,
                  category |-> "Eng", location |-> <<"n", "y">>]]

\* a backup of a store that holds nothing
FullB ==
    [userRole |-> "job_seeker", applications |-> <<>>, userJobs |-> <<>>,
     savedJobs |-> <<>>, theme |-> "light", filters |-> defaultFilters]

\* the snapshot with the fields X of a full snapshot
Restrict(full, X) == [k \in X |-> full[k]]

\* null, the backup of an empty store, and an invalid role next to valid
\* collections
OtherSnapshots ==
    { Null,
      <<FullB>>,
      <<[userRole |-> "admin",
         applications |-> <<ImportedApplication("app_8", "j1")>>,
         userJobs |-> <<>>,
         savedJobs |-> <<"j1">>,
         theme |-> "dark",
         filters |-> [remoteOnly |-> TRUE]]>> }

Roles == {"job_seeker", "recruiter", "admin", ""}
AppIds == {"app_8", "app_9", "app_0"}
Statuses == {"reviewed"}

NextImport ==
    \/ \E role \in Roles : SetUserRole(role)
    \/ \E id \in AppIds, status \in Statuses : UpdateApplicationStatus(id, status)
    \/ \E X \in SUBSET SnapshotFields : ImportData(<<Restrict(FullA, X)>>)
    \/ \E data \in OtherSnapshots : ImportData(data)
    \/ ClearAllData

SpecImport == Init /\ [][NextImport]_vars

\* C16: updateApplicationStatus with an unknown id changes nothing and emits
\* nothing; with a known id it changes only the status field of that one
\* application, persists the applications entry and emits exactly one
\* applicationUpdated carrying the full updated record.
C16_StatusUpdate ==
    [][\A id \in AppIds, status \in Statuses :
          (ret'.op = "updateApplicationStatus" /\ UpdateApplicationStatus(id, status))
             => /\ ret'.error = ""
                /\ UNCHANGED <<userRole, theme, userJobs, savedJobs, filters,
                               currentPage, allJobs, filteredJobs>>
                /\ IF \A i \in 1..Len(applications) : applications[i].id # id
                   THEN /\ applications' = applications
                        /\ storage' = storage
                        /\ events' = <<>>
                   ELSE LET i == FindIndex(applications, id)
                        IN  /\ Len(applications') = Len(applications)
                            /\ DOMAIN applications'[i] = DOMAIN applications[i]
                            /\ applications'[i].status = status
                            /\ \A k \in (DOMAIN applications[i]) \ {"status"} :
                                   applications'[i][k] = applications[i][k]
                            /\ \A m \in 1..Len(applications) :
                                   m # i => applications'[m] = applications[m]
                            /\ storage' = [storage EXCEPT
                                              !["APPLICATIONS"] = <<applications'>>]
                            /\ events' = <<Event("applicationUpdated",
                                                 applications'[i])>>]_vars

\* the status of the second of two applications has been changed
C16_Witness ==
    /\ ret.op = "updateApplicationStatus"
    /\ ret.args = <<"app_9", "reviewed">>
    /\ Len(applications) = 2
    /\ applications[1].status = "pending"
    /\ applications[2] = Merge(ImportedApplication("app_9", "j2"),
                               [status |-> "reviewed"])
    /\ Len(events) = 1

\* C17: setUserRole(r) with r neither job_seeker nor recruiter throws the
\* invalid-role error, leaves userRole and the persisted role unchanged and
\* emits no roleChanged; so userRole is job_seeker or recruiter in every
\* state, also after importData with an arbitrary userRole.
C17_RoleStaysValid ==
    /\ [](userRole \in {"job_seeker", "recruiter"})
    /\ [][\A r \in Roles :
             (/\ ret'.op = "setUserRole"
              /\ r \notin {"job_seeker", "recruiter"}
              /\ SetUserRole(r))
                => /\ ret'.error = ErrInvalidRole
                   /\ userRole' = userRole
                   /\ storage' = storage
                   /\ events' = <<>>]_vars

\* an import with the role admin has been refused in a store whose role is
\* recruiter
C17_Witness ==
    /\ ret.op = "importData"
    /\ ret.args[1] # Null
    /\ "userRole" \in DOMAIN ret.args[1][1]
    /\ ret.args[1][1].userRole = "admin"
    /\ ret.value = <<FALSE>>
    /\ userRole = "recruiter"
    /\ storage["USER_ROLE"] = <<"recruiter">>

\* the store's field a snapshot field is imported into, and its storage key
StoreField(k) ==
    CASE k = "userRole" -> userRole
      [] k = "applications" -> applications
      [] k = "userJobs" -> userJobs
      [] k = "savedJobs" -> savedJobs
      [] k = "theme" -> theme
      [] k = "filters" -> filters

KeyOf(k) ==
    CASE k = "userRole" -> "USER_ROLE"
      [] k = "applications" -> "APPLICATIONS"
      [] k = "userJobs" -> "USER_JOBS"
      [] k = "savedJobs" -> "SAVED_JOBS"
      [] k = "theme" -> "THEME"
      [] k = "filters" -> "FILTERS"

\* C20: for a snapshot with any subset of the six fields, importData replaces
\* exactly the store fields present in the snapshot, and their persisted
\* entries, and leaves every absent field and its persisted entry unchanged.
C20_PartialImport ==
    [][(ret'.op = "importData" /\ ret'.args[1] # Null)
          => LET d == ret'.args[1][1]
                 X == DOMAIN d
             IN  \A full \in {FullA, FullB} :
                    (d = Restrict(full, X) /\ ImportData(<<d>>))
                       => /\ ret'.value = <<TRUE>>
                          /\ \A k \in X :
                                 /\ StoreField(k)' = full[k]
                                 /\ storage'[KeyOf(k)] = <<full[k]>>
                          /\ \A k \in SnapshotFields \ X :
                                 /\ StoreField(k)' = StoreField(k)
                                 /\ storage'[KeyOf(k)] = storage[KeyOf(k)]]_vars

\* a snapshot with only applications and theme has been imported into a store
\* that held saved jobs: the two fields are replaced, the rest stays, and the
\* role has still never been written
C20_Witness ==
    /\ ret.op = "importData"
    /\ ret.args[1] # Null
    /\ DOMAIN ret.args[1][1] = {"applications", "theme"}
    /\ applications = FullA.applications
    /\ theme = "dark"
    /\ userRole = "job_seeker"
    /\ storage["USER_ROLE"] = Null
    /\ userJobs = <<>>
    /\ savedJobs = <<"j1", "j2">>
    /\ storage["SAVED_JOBS"] = <<savedJobs>>
    /\ filters = defaultFilters


(***************************************************************************)
(* SpecRoundTrip: a store whose six durable fields change, exported to a   *)
(* backup file at any moment; the backup, or the record exportData()       *)
(* returns, is imported into the store as it is then, also right after     *)
(* clearAllData.                                                           *)
(***************************************************************************)
RoundTripSnapshots == { <<Restrict(FullA, {"applications", "userJobs"})>> }

NextRoundTrip ==
    \/ \E role \in {"job_seeker", "recruiter"} : SetUserRole(role)
    \/ \E t \in {"light", "dark"} : SetTheme(t)
    \/ \E id \in {"j1"} : SaveJob(id)
    \/ \E nf \in {[remoteOnly |-> TRUE]} : SetFilters(nf)
    \/ \E data \in RoundTripSnapshots : ImportData(data)
    \/ ExportData
    \/ ImportData(<<ExportedData>>)
    \/ ImportData(exported)
    \/ ClearAllData

SpecRoundTrip == Init /\ [][NextRoundTrip]_vars

\* C19: importData(exportData()) returns true and leaves userRole,
\* applications, userJobs, savedJobs, theme and filters as they were, with no
\* record duplicated; and a snapshot imported into a freshly cleared store
\* gives the six fields the values they had when it was exported.
C19_RoundTrip ==
    [][/\ (ret'.op = "importData" /\ ImportData(<<ExportedData>>))
            => /\ ret'.value = <<TRUE>>
               /\ UNCHANGED <<userRole, applications, userJobs, savedJobs, theme,
                              filters>>
       /\ (/\ ret.op = "clearAllData"
           /\ exported # Null
           /\ ret'.op = "importData"
           /\ ImportData(exported))
            => /\ ret'.value = <<TRUE>>
               /\ \A k \in SnapshotFields : StoreField(k)' = exported[1][k]]_vars

\* the backup of a recruiter's store with a dark theme, applications, a
\* posted job, a saved job and a remote-only filter has been imported into
\* the cleared store
C19_Witness ==
    /\ ret.op = "importData"
    /\ exported # Null
    /\ ret.args[1] = exported
    /\ ret.value = <<TRUE>>
    /\ Len(events) = 3
    /\ userRole = "recruiter"
    /\ theme = "dark"
    /\ applications = FullA.applications
    /\ userJobs = <<PostedJob>>
    /\ savedJobs = <<"j1">>
    /\ filters.remoteOnly
    /\ allJobs = <<>>
    /\ \A k \in SnapshotFields : storage[KeyOf(k)] = <<exported[1][k]>>


(***************************************************************************)
(* SpecThrow: the operations that are not meant to throw, called with      *)
(* records that lack a text field as well as with complete ones.           *)
(***************************************************************************)
\* a fetched job and a posting without a title
Untitled ==
    [k \in (DOMAIN JobC) \ {"title"} |-> JobC[k]]

Draft ==
    [k \in (DOMAIN JobData(<<>>, TRUE)) \ {"title"} |-> JobData(<<>>, TRUE)[k]]

ThrowPartials == { [search |-> <<"d", "e">>], [location |-> <<"n">>] }

ThrowSnapshots ==
    { Null, <<[applications |-> <<ImportedApplication("app_8", "j1")>>]>> }

NextThrow ==
    \/ \E jobs \in {<<JobA, Untitled>>} : SetAllJobs(jobs)
    \/ \E jobData \in {Draft} : AddJob(jobData)
    \/ \E id \in {"j1"} : UpdateJob(id, [title |-> <<"q", "a">>])
    \/ \E id \in {"j1"} : DeleteJob(id)
    \/ \E nf \in ThrowPartials : SetFilters(nf)
    \/ ResetFilters
    \/ \E page \in {2} : SetPage(page)
    \/ \E id \in {"j1"} : SaveJob(id)
    \/ \E id \in {"j1"} : UnsaveJob(id)
    \/ \E id \in {"app_8"} : UpdateApplicationStatus(id, "reviewed")
    \/ \E data \in ThrowSnapshots : ImportData(data)
    \/ ClearAllData

SpecThrow == Init /\ [][NextThrow]_vars

\* C18: only applyForJob and setUserRole throw: every other operation returns
\* normally, for any arguments and in any reachable state.
C18_OnlyTwoThrow ==
    ret.error # "" => ret.op \in {"applyForJob", "setUserRole"}


\* C21: importData never throws, and an import that returns false is aborted
\* as a whole: none of the six fields nor any persisted entry has changed and
\* no dataImported notification was emitted.
C21_FailedImportAborted ==
    [][ret'.op = "importData"
          => /\ ret'.error = ""
             /\ ret'.value \in {<<TRUE>>, <<FALSE>>}
             /\ ret'.value = <<FALSE>>
                   => /\ UNCHANGED <<userRole, applications, userJobs, savedJobs,
                                     theme, filters, storage>>
                      /\ \A i \in 1..Len(events') :
                             events'[i].name # "dataImported"]_vars

\* a snapshot with the role admin next to valid collections, a theme and
\* filters has been refused by a store that holds other data
C21_Witness ==
    /\ ret.op = "importData"
    /\ ret.value = <<FALSE>>
    /\ ret.args[1] # Null
    /\ DOMAIN ret.args[1][1] = SnapshotFields
    /\ applications = FullA.applications
    /\ savedJobs = <<>>
    /\ theme = "light"
    /\ filters = defaultFilters
    /\ storage["APPLICATIONS"] = <<applications>>
    /\ storage["THEME"] = Null


(***************************************************************************)
(* Every mutation of the store, with storage writes succeeding.            *)
(***************************************************************************)
DurableSnapshots ==
    { <<[filters |-> [search |-> <<"d", "e">>], theme |-> "dark"]>>,
      <<[userRole |-> "recruiter",
         applications |-> <<ImportedApplication("app_8", "j2")>>,
         savedJobs |-> <<"j2">>]>> }

NextDurable ==
    \/ \E role \in {"recruiter", "admin"} : SetUserRole(role)
    \/ \E t \in {"dark", "blue"} : SetTheme(t)
    \/ \E jobs \in {<<JobA, Untitled>>} : SetAllJobs(jobs)
    \/ \E jobData \in {JobData(<<"D", "e", "v">>, TRUE)} : AddJob(jobData)
    \/ \E id \in {"user_job_1"} : UpdateJob(id, [title |-> <<"q", "a">>])
    \/ \E id \in {"user_job_1"} : DeleteJob(id)
    \/ \E id \in {"j1"} : ApplyForJob(id, Ann)
    \/ \E id \in {"app_8"} : UpdateApplicationStatus(id, "reviewed")
    \/ \E id \in {"j1"} : SaveJob(id)
    \/ \E id \in {"j1"} : UnsaveJob(id)
    \/ \E nf \in {[remoteOnly |-> TRUE]} : SetFilters(nf)
    \/ ResetFilters
    \/ \E data \in DurableSnapshots : ImportData(data)
    \/ ClearAllData

SpecDurable == Init /\ [][NextDurable]_vars

\* C22: with storage writes succeeding, a store constructed anew from the
\* key-value storage has the same userRole, applications, userJobs, savedJobs,
\* theme and filters as the live store, after any sequence of mutations.
C22_Durable ==
    /\ userRole = InitRole(storage)
    /\ applications = InitApplications(storage)
    /\ userJobs = InitUserJobs(storage)
    /\ savedJobs = InitSavedJobs(storage)
    /\ theme = InitTheme(storage)
    /\ filters = InitFilters(storage)

\* all six fields differ from their defaults
C22_Witness ==
    /\ userRole = "recruiter"
    /\ Len(applications) = 2
    /\ applications[1].status = "reviewed"
    /\ Len(userJobs) = 1
    /\ userJobs[1].title = <<"q", "a">>
    /\ savedJobs = <<"j2", "j1">>
    /\ theme = "dark"
    /\ filters.remoteOnly
    /\ filters.search = <<"d", "e">>
    /\ C22_Durable


(***************************************************************************)
(* Mutations before and after localStorage starts to refuse writes.        *)
(***************************************************************************)
NextQuota ==
    \/ QuotaExceeded
    \/ \E role \in {"recruiter"} : SetUserRole(role)
    \/ \E jobs \in {<<JobA, JobB>>} : SetAllJobs(jobs)
    \/ \E jobData \in {JobData(<<"D", "e", "v">>, TRUE)} : AddJob(jobData)
    \/ \E id \in {"j1"} : ApplyForJob(id, Ann)
    \/ \E id \in {"j1"} : SaveJob(id)
    \/ \E id \in {"user_job_1"} : DeleteJob(id)
    \/ \E nf \in {[remoteOnly |-> TRUE]} : SetFilters(nf)
    \/ ResetFilters

SpecQuota == Init /\ [][NextQuota]_vars

Names(evs) == [i \in 1..Len(evs) |-> evs[i].name]

\* C23: an operation whose storage write fails does not throw, leaves the
\* in-memory collections as the mutation asks, recomputes the filtered view
\* and emits the notifications it emits when the write succeeds; the storage
\* keeps its old content.
C23_WriteFailureTolerated ==
    [][(storageFails /\ ret' # ret)
          => /\ storage' = storage
             /\ ret'.error =
                   IF ret'.op # "applyForJob" THEN ""
                   ELSE IF HasApplied(applications, ret'.args[1])
                        THEN ErrDuplicate
                   ELSE IF NoJobWithId(allJobs, ret'.args[1]) THEN ErrNotFound
                   ELSE ""
             /\ filteredJobs' = ApplyFilters(allJobs', filters')
             /\ ret'.op = "setUserRole"
                   => /\ userRole' = ret'.args[1]
                      /\ events' = <<Event("roleChanged", userRole')>>
             /\ ret'.op = "addJob"
                   => /\ userJobs' = Append(userJobs, ret'.value[1])
                      /\ allJobs' = Append(allJobs, ret'.value[1])
                      /\ events' = <<Event("jobAdded", ret'.value[1]),
                                     Event("jobsUpdated", filteredJobs')>>
             /\ (ret'.op = "applyForJob" /\ ret'.error = "")
                   => /\ applications' = Append(applications, ret'.value[1])
                      /\ events' = <<Event("applicationSubmitted",
                                           ret'.value[1])>>
             /\ (ret'.op = "saveJob" /\ ~IsJobSaved(savedJobs, ret'.args[1]))
                   => /\ savedJobs' = Append(savedJobs, ret'.args[1])
                      /\ events' = <<Event("jobSaved", ret'.args[1])>>
             /\ (ret'.op = "deleteJob" /\ ~NoJobWithId(allJobs, ret'.args[1]))
                   => /\ NoJobWithId(allJobs', ret'.args[1])
                      /\ NoJobWithId(userJobs', ret'.args[1])
                      /\ Names(events') = <<"jobDeleted", "jobsUpdated">>
             /\ ret'.op \in {"setFilters", "resetFilters"}
                   => /\ filters' = IF ret'.op = "setFilters"
                                    THEN Merge(filters, ret'.args[1])
                                    ELSE defaultFilters
                      /\ events' = <<Event("filtersChanged", filters'),
                                     Event("jobsUpdated", filteredJobs')>>]_vars

\* a job was posted and removed again while no write got through
C23_Witness ==
    /\ storageFails
    /\ ret.op = "deleteJob"
    /\ nextId = 2
    /\ userJobs = <<>>
    /\ allJobs = <<JobA, JobB>>
    /\ savedJobs = <<"j1">>
    /\ filters.remoteOnly
    /\ filteredJobs = <<JobA>>
    /\ storage = emptyStorage


(***************************************************************************)
(* A store constructed over a storage that already holds items: each key   *)
(* absent, unparseable, or holding a value a store has written; the filter *)
(* record also as an older version wrote it, with some keys only.          *)
(***************************************************************************)
StoredFilters ==
    { [remoteOnly |-> TRUE, sort |-> "oldest"],
      [search |-> <<"d", "e">>, sort |-> "salary_high", remoteOnly |-> TRUE,
       category |-> "Eng", location |-> <<"n">>] }

StoredStates ==
    [USER_ROLE : {Null, Corrupt, <<"recruiter">>},
     APPLICATIONS : {Null, Corrupt, <<FullA.applications>>},
     USER_JOBS : {Null, Corrupt, <<FullA.userJobs>>},
     SAVED_JOBS : {Null, Corrupt, <<FullA.savedJobs>>},
     THEME : {Null, Corrupt, <<"dark">>},
     FILTERS : {Null, Corrupt} \cup {<<f>> : f \in StoredFilters}]

InitStored ==
    /\ storage \in StoredStates
    /\ storageFails = FALSE
    /\ userRole = InitRole(storage)
    /\ applications = InitApplications(storage)
    /\ userJobs = InitUserJobs(storage)
    /\ savedJobs = InitSavedJobs(storage)
    /\ theme = InitTheme(storage)
    /\ filters = InitFilters(storage)
    /\ currentPage = 1
    /\ allJobs = <<>>
    /\ filteredJobs = <<>>
    /\ now = 0
    /\ nextId = 1
    /\ events = <<>>
    /\ ret = noRet
    /\ appliedOk = {}
    /\ exported = Null
    /\ api = NewJobAPI
    /\ eventListeners = <<>>

NextStored ==
    \/ Constructor
    \/ \E t \in {"light"} : SetTheme(t)
    \/ \E id \in {"j3"} : SaveJob(id)
    \/ ClearAllData

SpecStored == InitStored /\ [][NextStored]_vars

Readable(entry) == Len(entry) = 1

\* C24: a freshly constructed store reads each key on its own: a field whose
\* key is absent or unparseable has its default, every other field has the
\* value stored under its key, and a stored filter record is completed with
\* the default of each key it lacks.
C24_InitPerKey ==
    ret.op = "constructor"
       => /\ userRole = IF Readable(storage["USER_ROLE"])
                        THEN storage["USER_ROLE"][1] ELSE "job_seeker"
          /\ applications = IF Readable(storage["APPLICATIONS"])
                            THEN storage["APPLICATIONS"][1] ELSE <<>>
          /\ userJobs = IF Readable(storage["USER_JOBS"])
                        THEN storage["USER_JOBS"][1] ELSE <<>>
          /\ savedJobs = IF Readable(storage["SAVED_JOBS"])
                         THEN storage["SAVED_JOBS"][1] ELSE <<>>
          /\ theme = IF Readable(storage["THEME"])
                     THEN storage["THEME"][1] ELSE "light"
          /\ DOMAIN filters = DOMAIN defaultFilters
          /\ \A k \in DOMAIN defaultFilters :
                filters[k] = IF /\ Readable(storage["FILTERS"])
                                /\ k \in DOMAIN storage["FILTERS"][1]
                             THEN storage["FILTERS"][1][k]
                             ELSE defaultFilters[k]

\* the role item does not parse, the applications are absent, the filter
\* record holds two keys, and the other three items are read
C24_Witness ==
    /\ ret.op = "constructor"
    /\ storage["USER_ROLE"] = Corrupt
    /\ storage["APPLICATIONS"] = Null
    /\ storage["THEME"] = <<"dark">>
    /\ Readable(storage["FILTERS"])
    /\ DOMAIN storage["FILTERS"][1] = {"remoteOnly", "sort"}
    /\ userRole = "job_seeker"
    /\ theme = "dark"
    /\ savedJobs = <<"j1", "j2", "j3">>
    /\ userJobs = FullA.userJobs
    /\ filters.sort = "oldest"
    /\ filters.category = ""


(***************************************************************************)
(* The query accessors between mutations of what they read.                *)
(***************************************************************************)
QueryJobIds == {"j1", "j2", "j9"}

QueryOps ==
    {"getAllJobs", "getFilteredJobs", "getPaginatedJobs", "getJobById",
     "getApplications", "getApplicationsForJob", "getUserJobs", "getSavedJobs",
     "isJobSaved", "hasApplied", "getPaginationInfo", "getStats"}

NextQuery ==
    \/ \E jobs \in {<<JobA, JobB, JobC>>, BigJobs} : SetAllJobs(jobs)
    \/ \E id \in QueryJobIds : SaveJob(id)
    \/ \E id \in QueryJobIds : UnsaveJob(id)
    \/ \E id \in {"j1"} : ApplyForJob(id, Ann)
    \/ \E page \in {2} : SetPage(page)
    \/ GetAllJobs
    \/ GetFilteredJobs
    \/ GetUserJobs
    \/ GetApplications
    \/ \E id \in {"j1"} : GetApplicationsForJob(id)
    \/ \E id \in {"j2", "j9"} : GetJobById(id)
    \/ \E id \in {"j2"} : IsJobSavedCall(id)
    \/ \E id \in {"j1"} : HasAppliedCall(id)
    \/ GetPaginatedJobs
    \/ GetPaginationInfoCall
    \/ GetStats
    \/ GetSavedJobs

SpecQuery == Init /\ [][NextQuery]_vars

\* C25: a query accessor changes no collection, not the order of any
\* collection, not the filters nor the current page, writes nothing to storage
\* and emits no notification.
C25_QueriesArePure ==
    [][ret'.op \in QueryOps
          => /\ UNCHANGED <<userRole, theme, applications, userJobs, savedJobs,
                            filters, currentPage, allJobs, filteredJobs, storage>>
             /\ events' = <<>>]_vars

\* getSavedJobs has returned j2 before j1 while allJobs still holds j1 first
C25_Witness ==
    /\ ret.op = "getSavedJobs"
    /\ Len(ret.value[1]) = 2
    /\ ret.value[1][1].id = "j2"
    /\ ret.value[1][2].id = "j1"
    /\ allJobs = <<JobA, JobB, JobC>>
    /\ savedJobs = <<"j9", "j1", "j2">>


\* the jobs of the saved ids, latest save first
RECURSIVE LatestFirst(_, _)
LatestFirst(saved, jobs) ==
    IF saved = <<>> THEN <<>>
    ELSE FindJob(jobs, saved[Len(saved)])
            \o LatestFirst(SubSeq(saved, 1, Len(saved) - 1), jobs)

Absent == [t |-> "absent"]

RawJob(q, from, to, openings) ==
    LET all == [id |-> JStr(<<"j", "1">>), title |-> JStr(<<"D", "e", "v">>),
                is_remote_work |-> JNum(1), created_at |-> JStr(TextDate),
                updated_at |-> JStr(TextNoDate),
                qualifications |-> q, salary_from |-> from, salary_to |-> to,
                number_of_opening |-> openings]
    IN  JObj([k \in {f \in DOMAIN all : all[f].t # "absent"} |-> all[k]])

QualificationInputs ==
    { Absent, JNull, JNum(5), JBool(TRUE), JObj([a |-> JNum(1)]),
      JArr(<<JStr(<<"a">>), JStr(<<"b">>)>>), JArr(<<>>),
      JStr(TextArray), JStr(TextEmptyArray), JStr(TextObject), JStr(TextNumber),
      JStr(TextNull), JStr(TextBroken), JStr(<<>>) }

SalaryInputs ==
    { Absent, JNull, JNum(50), JNum(0), JNum(-5),
      JStr(<<"5", "0">>), JStr(<<"-", "5">>), JStr(<<"1", "2", "a", "b">>),
      JStr(<<"a", "b", "c">>), JStr(<<" ", "7">>) }

OpeningInputs ==
    { Absent, JNum(3), JNum(0), JNum(-3), JStr(<<"-", "3">>), JStr(<<"x">>) }

RawJobs ==
    { RawJob(q, from, Absent, JNum(3)) :
         q \in QualificationInputs, from \in SalaryInputs }
    \cup { RawJob(Absent, JNum(50), to, openings) :
              to \in SalaryInputs, openings \in OpeningInputs }

RawA == RawJob(JStr(TextArray), JNum(50), JNum(70), JNum(3))
\* a record without an id
RawB == JObj([title |-> JStr(<<"o", "p", "s">>)])

RawBatches ==
    { JNull, JUndefined, RawA, JStr(TextArray), JNum(5),
      JArr(<<>>), JArr(<<RawA>>), JArr(<<JNull>>),
      JArr(<<JNull, RawA, JUndefined, RawB>>),
      JArr(<<RawB, JNum(5), RawB>>) }

RandomDraws == {<<1, 2, 3, 4>>, <<1, 1, 1, 1>>}

NextNormalize ==
    \/ \E job \in RawJobs \cup {JNull, JUndefined, JNum(5), JStr(<<"x">>)} :
          NormalizeJobCall(job, 1)
    \/ \E jobs \in RawBatches, rnd \in RandomDraws : NormalizeJobsCall(jobs, rnd)
    \/ Tick

SpecNormalize == Init /\ [][NextNormalize]_vars

\* C27: normalizeJobs returns a sequence for every input and never throws:
\* the empty sequence for an input that is no array, and for an array the
\* normalisations, in input order, of the elements other than null and
\* undefined, which are the ones whose normalisation raises an exception.
C27_BatchNeverFails ==
    ret.op = "normalizeJobs"
       => LET jobs == ret.args[1]
              result == ret.value[1]
              kept == SelectSeq(jobs.v, LAMBDA x : x.t \notin {"null", "undefined"})
          IN  /\ ret.error = ""
              /\ jobs.t # "array" => result = <<>>
              /\ jobs.t = "array"
                    => /\ Len(result) = Len(kept)
                       /\ Len(result) <= Len(jobs.v)
                       /\ \A i \in 1..Len(result) :
                             /\ result[i].t = "object"
                             /\ \E rnd \in RandomDraws, k \in 1..Len(jobs.v),
                                   time \in 0..now :
                                   result[i] = JObj(NormalizedJob(kept[i], time, rnd[k]))

\* of four elements, null and undefined among them, two are left
C27_Witness ==
    /\ ret.op = "normalizeJobs"
    /\ ret.args[1].t = "array"
    /\ Len(ret.args[1].v) = 4
    /\ Len(ret.value[1]) = 2
    /\ ret.value[1][1].v.id = JStr(<<"j", "1">>)
    /\ ret.value[1][2].v.title = JStr(<<"o", "p", "s">>)

\* C28: the qualifications of a normalised record are an array: the array of
\* the raw record, the array its string parses to, and the empty array for a
\* string that does not parse or parses to something else, for a missing
\* field and for every other value.
C28_QualificationsArray ==
    (ret.op = "normalizeJob" /\ ret.value[1].t = "object")
       => LET q == Field(ret.args[1], "qualifications")
              result == ret.value[1].v.qualifications
          IN  /\ ret.error = ""
              /\ result.t = "array"
              /\ result.v = IF q.t = "array" THEN q.v
                            ELSE IF q.t = "string" /\ q.v = TextArray
                                 THEN <<JStr(<<"a">>)>>
                            ELSE <<>>

\* the text {not has given the empty array
C28_Witness ==
    /\ ret.op = "normalizeJob"
    /\ ret.value[1].t = "object"
    /\ Field(ret.args[1], "qualifications") = JStr(TextBroken)
    /\ ret.value[1].v.qualifications = JArr(<<>>)

NonNegativeOrNull(x) == x.t = "null" \/ (x.t = "number" /\ x.v >= 0)

\* C29: in a normalised record salary_from and salary_to are null or a
\* non-negative integer and number_of_opening is a positive integer.
C29_SalariesAndOpenings ==
    (ret.op = "normalizeJob" /\ ret.value[1].t = "object")
       => LET job == ret.value[1].v
          IN  /\ NonNegativeOrNull(job.salary_from)
              /\ NonNegativeOrNull(job.salary_to)
              /\ job.number_of_opening.t = "number"
              /\ job.number_of_opening.v > 0


(***************************************************************************)
(* The client fetching while time passes.  Date.now() is positive.         *)
(***************************************************************************)
StartTime == 1

InitFetch ==
    /\ storage = emptyStorage
    /\ storageFails = FALSE
    /\ userRole = InitRole(storage)
    /\ applications = InitApplications(storage)
    /\ userJobs = InitUserJobs(storage)
    /\ savedJobs = InitSavedJobs(storage)
    /\ theme = InitTheme(storage)
    /\ filters = InitFilters(storage)
    /\ currentPage = 1
    /\ allJobs = <<>>
    /\ filteredJobs = <<>>
    /\ now = StartTime
    /\ nextId = 1
    /\ events = <<>>
    /\ ret = noRet
    /\ appliedOk = {}
    /\ exported = Null
    /\ api = NewJobAPI
    /\ eventListeners = <<>>

UpstreamData == {JArr(<<RawA, JNull>>), JArr(<<RawB>>), JNull}

NextFetch ==
    \/ FetchJobs
    \/ \E request \in 1..(MaxFetch + 1), data \in UpstreamData :
          FetchSucceeds(request, data, <<1, 2>>)
    \/ \E request \in 1..(MaxFetch + 1) : FetchFails(request)
    \/ ClearCache
    \/ Elapse

SpecFetch == InitFetch /\ [][NextFetch]_vars

\* C30: while a fetch has succeeded at the instant lastFetch and the cache was
\* not cleared since, a fetchJobs call made before lastFetch + 5 minutes
\* returns the cached jobs and issues no upstream request, and a call made at
\* or after lastFetch + 5 minutes issues one.
C30_CacheFreshness ==
    [][(FetchJobs /\ api.cache # Null /\ api.lastFetch # Null)
          => IF now < api.lastFetch[1] + 5 * 60 * 1000
             THEN /\ ret' = Returned("fetchJobs", <<>>, api.cache)
                  /\ api' = api
             ELSE /\ api'.requests = api.requests + 1
                  /\ api'.pending # api.pending
                  /\ api'.cache = api.cache
                  /\ ret'.op = "fetch"]_vars

\* exactly five minutes after the fetch that filled the cache a second request
\* goes out
C30_Witness ==
    /\ ret.op = "fetch"
    /\ api.requests = 2
    /\ api.pending = {2}
    /\ api.cache # Null
    /\ Len(api.cache[1]) = 1
    /\ api.lastFetch # Null
    /\ now = api.lastFetch[1] + 5 * 60 * 1000

ViewPartials == { [remoteOnly |-> TRUE], [sort |-> "oldest"] }

NextView ==
    \/ NextStale
    \/ \E nf \in ViewPartials : SetFilters(nf)
    \/ ResetFilters
    \/ ClearAllData

SpecView == Init /\ [][NextView]_vars

\* C32: once an operation has returned, the filtered view is the
\* filter-and-sort of the current allJobs under the current filters.
C32_ViewFresh == filteredJobs = ApplyFilters(allJobs, filters)


(***************************************************************************)
(* SpecStatus: applications submitted and moved through the review, with   *)
(* the status argument and the applicant details free.                     *)
(***************************************************************************)
ApplicationStatuses == {"pending", "reviewed", "interviewing", "hired", "rejected"}

StatusArguments == {"reviewed", "hired", "archived"}

StatusDetails == { Ann, [name |-> "Mal", email |-> "m@x.com", status |-> "withdrawn"] }

NextStatus ==
    \/ \E jobs \in {<<JobA, JobB>>} : SetAllJobs(jobs)
    \/ \E id \in {"j1", "j2"}, d \in StatusDetails : ApplyForJob(id, d)
    \/ \E id \in {GenAppId(1), GenAppId(2)}, status \in StatusArguments :
          UpdateApplicationStatus(id, status)
    \/ Tick

SpecStatus == Init /\ [][NextStatus]_vars

\* C33: in every reachable state the status of every application is one of
\* pending, reviewed, interviewing, hired, rejected.
C33_StatusInEnum ==
    \A i \in 1..Len(applications) : applications[i].status \in ApplicationStatuses


\* C34: updateJob, deleteJob and setAllJobs leave the applications, with the
\* jobTitle, company and status each one carries, and their persisted entry
\* unchanged, also when the job an application refers to is the one edited,
\* deleted or replaced.
C34_ApplicationsAreSnapshots ==
    [][ret'.op \in {"updateJob", "deleteJob", "setAllJobs"}
          => /\ applications' = applications
             /\ storage'["APPLICATIONS"] = storage["APPLICATIONS"]]_vars

\* the job applied for was deleted and the application still names it
C34_Witness ==
    /\ ret.op = "deleteJob"
    /\ ret.args = <<"j1">>
    /\ NoJobWithId(allJobs, "j1")
    /\ \E i \in 1..Len(applications) :
          /\ applications[i].jobId = "j1"
          /\ applications[i].jobTitle = JobA.title
          /\ applications[i].company = JobA.company
          /\ applications[i].id = GenAppId(1)


(***************************************************************************)
(* SpecRender: the lists are rendered between the operations that fill     *)
(* them.                                                                   *)
(***************************************************************************)
NextRender ==
    \/ \E jobs \in {<<JobA, JobB>>} : SetAllJobs(jobs \o userJobs)
    \/ \E jobData \in {JobData(<<"D", "e", "v">>, TRUE)} : AddJob(jobData)
    \/ \E id \in {"j1", "j2"} : ApplyForJob(id, Ann)
    \/ RenderApplicationsList
    \/ RenderManageJobsList
    \/ Tick

SpecRender == Init /\ [][NextRender]_vars

\* C35: rendering the applications list or the manage-jobs list leaves the
\* store's applications and userJobs sequences unchanged, element order
\* included, so that each still equals what was last persisted.
C35_RenderLeavesCollections ==
    [][ret'.op \in {"renderApplicationsList", "renderManageJobsList"}
          => /\ applications' = applications
             /\ userJobs' = userJobs
             /\ storage["APPLICATIONS"] = <<applications>>
                    => storage'["APPLICATIONS"] = <<applications'>>
             /\ storage["USER_JOBS"] = <<userJobs>>
                    => storage'["USER_JOBS"] = <<userJobs'>>]_vars


(***************************************************************************)
(* SpecCursor: the page cursor while the job set and the filters change    *)
(* under it.                                                               *)
(***************************************************************************)
\* one job more than a page holds
OverAPage == SubSeq(BigJobs, 1, itemsPerPage + 1)

NextCursor ==
    \/ \E jobs \in {<<>>, OverAPage} : SetAllJobs(jobs \o userJobs)
    \/ \E jobData \in {JobData(<<"D", "e", "v">>, TRUE)} : AddJob(jobData)
    \/ \E id \in {"b1"} : UpdateJob(id, [is_remote_work |-> TRUE])
    \/ \E id \in {"b1", "b2", GenJobId(1)} : DeleteJob(id)
    \/ \E nf \in {[remoteOnly |-> TRUE], [remoteOnly |-> FALSE]} : SetFilters(nf)
    \/ \E n \in PageArgs : SetPage(n)

SpecCursor == Init /\ [][NextCursor]_vars

\* C36: in every reachable state 1 <= currentPage <= totalPages as
\* getPaginationInfo reports it, and getPaginatedJobs is non-empty whenever
\* the filtered view is.
C36_CursorValid ==
    /\ 1 <= currentPage
    /\ currentPage <= GetPaginationInfo(filteredJobs, currentPage).totalPages
    /\ Len(filteredJobs) > 0 => Len(PaginatedJobs(filteredJobs, currentPage)) > 0


\* C37: every userJobs entry is present in allJobs with identical field
\* values, and every allJobs entry with source = user is in userJobs.
C37_CollectionsConsistent ==
    /\ \A i \in 1..Len(userJobs) :
          \E k \in 1..Len(allJobs) : allJobs[k] = userJobs[i]
    /\ \A k \in 1..Len(allJobs) :
          allJobs[k].source = "user"
             => \E i \in 1..Len(userJobs) : userJobs[i] = allJobs[k]


(***************************************************************************)
(* SpecDangling: saved references while the jobs they name come and go.    *)
(***************************************************************************)
NextDangling ==
    \/ \E jobs \in {<<JobA, JobB>>, <<JobC>>} : SetAllJobs(jobs)
    \/ \E id \in {"j1", "j2"} : SaveJob(id)
    \/ \E id \in {"j2"} : UnsaveJob(id)
    \/ \E id \in {"j1", "j2"} : DeleteJob(id)
    \/ \E id \in {"j1", "j2"} : IsJobSavedCall(id)
    \/ GetStats
    \/ GetSavedJobs

SpecDangling == Init /\ [][NextDangling]_vars

\* C38: deleteJob and setAllJobs leave savedJobs and its persisted entry
\* unchanged; isJobSaved(id) is true for every id in savedJobs and
\* getStats().savedJobs counts every entry, whether or not the job still
\* exists, while getSavedJobs returns records of allJobs, exactly for the
\* saved ids that allJobs holds.
C38_SavedReferencesKept ==
    [][/\ ret'.op \in {"deleteJob", "setAllJobs"}
             => /\ savedJobs' = savedJobs
                /\ storage'["SAVED_JOBS"] = storage["SAVED_JOBS"]
       /\ ret'.op = "isJobSaved"
             => ret'.value = <<ret'.args[1] \in Elements(savedJobs')>>
       /\ ret'.op = "getStats"
             => ret'.value[1].savedJobs = Len(savedJobs')
       /\ ret'.op = "getSavedJobs"
             => /\ Elements(ret'.value[1]) \subseteq Elements(allJobs')
                /\ {job.id : job \in Elements(ret'.value[1])}
                      = Elements(savedJobs')
                           \cap {job.id : job \in Elements(allJobs')}]_vars

\* j1 was saved and then deleted: the reference is still there and
\* getSavedJobs returns the other saved job only
C38_Witness ==
    /\ ret.op = "getSavedJobs"
    /\ savedJobs = <<"j1", "j2">>
    /\ allJobs = <<JobB>>
    /\ ret.value = << <<JobB>> >>


(***************************************************************************)
(* The application's loads (JobPortalApp.loadInitialData, refreshJobs).    *)
(* Each is an async function: it runs to its await of api.fetchJobs(), and *)
(* when that promise settles the rest runs in one piece, reading the       *)
(* store's userJobs at that moment.  Between the two any other handler may *)
(* run.  Jobs are in the store's representation.                           *)
(***************************************************************************)
\* a mock job as the store reads it: created daysAgo days before time
MockStoreJob(mock, id, category, daysAgo, time) ==
    [id |-> id, title |-> mock.v.title.v, company |-> mock.v.company.v,
     description |-> mock.v.description.v, location |-> mock.v.location.v,
     job_category |-> category, is_remote_work |-> mock.v.is_remote_work.v,
     salary_from |-> <<mock.v.salary_from.v>>, salary_to |-> <<mock.v.salary_to.v>>,
     created_at |-> time - daysAgo, updated_at |-> time - daysAgo,
     source |-> "mock"]

MockStoreJobs(time) ==
    <<MockStoreJob(MockJob1(time), "mock_1", "Software Engineer", 0, time),
      MockStoreJob(MockJob2(time), "mock_2", "Data Scientist", 7, time),
      MockStoreJob(MockJob3(time), "mock_3", "Full-stack Developer", 2, time)>>

\* the user's jobs left out of the merge
MergedJobsApiOnly(apiJobs, posted) == apiJobs

\* [...apiJobs, ...userJobs]
MergedJobs(apiJobs, posted) == apiJobs \o posted

\* this.state.setAllJobs(allJobs) inside the try of a load: a TypeError from
\* applyFilters is caught there
LoadedInto(request, apiJobs) ==
    /\ allJobs' = MergedJobs(apiJobs, userJobs)
    /\ IF ApplyFiltersThrows(allJobs', filters)
       THEN /\ UNCHANGED filteredJobs
            /\ events' = <<>>
       ELSE /\ filteredJobs' = ApplyFilters(allJobs', filters)
            /\ events' = <<Event("jobsUpdated", filteredJobs')>>
    /\ ret' = Returned("jobsLoaded", <<request>>, <<apiJobs>>)
    /\ UNCHANGED <<userRole, theme, applications, userJobs, savedJobs, filters,
                   currentPage, storage, storageFails, exported, now, nextId,
                   appliedOk,
                   eventListeners>>

\* loadInitialData() up to the await: fetchJobs answers from a fresh cache,
\* and the load finishes without another handler in between, or it sends a
\* request
LoadInitialData ==
    /\ ~CacheFresh(api, now) => api.requests < MaxFetch
    /\ IF CacheFresh(api, now)
       THEN /\ UNCHANGED api
            /\ LoadedInto(0, api.cache[1])
       ELSE /\ api' = [api EXCEPT !.requests = @ + 1,
                                  !.pending = @ \cup {api.requests + 1}]
            /\ ret' = Returned("loadInitialData", <<api.requests + 1>>, Null)
            /\ events' = <<>>
            /\ UNCHANGED <<userRole, theme, applications, userJobs, savedJobs,
                           filters, currentPage, allJobs, filteredJobs, storage,
                           storageFails, exported, now, nextId, appliedOk,
                   eventListeners>>

\* refreshJobs() up to the await: clearCache(), then fetchJobs sends a request
RefreshJobs ==
    /\ api.requests < MaxFetch
    /\ api' = [api EXCEPT !.cache = Null, !.lastFetch = Null,
                          !.requests = @ + 1,
                          !.pending = @ \cup {api.requests + 1}]
    /\ ret' = Returned("refreshJobs", <<api.requests + 1>>, Null)
    /\ events' = <<>>
    /\ UNCHANGED <<userRole, theme, applications, userJobs, savedJobs, filters,
                   currentPage, allJobs, filteredJobs, storage, storageFails,
                   exported, now, nextId, appliedOk,
                   eventListeners>>

\* the request of a load is answered with apiJobs (normalised): fetchJobs
\* caches them and the load merges them with the user's jobs
LoadSucceeds(request, apiJobs) ==
    /\ request \in api.pending
    /\ api' = [api EXCEPT !.cache = <<apiJobs>>,
                          !.lastFetch = <<now>>,
                          !.pending = @ \ {request}]
    /\ LoadedInto(request, apiJobs)

\* the request of a load fails: fetchJobs resolves with the cache if there
\* is one, else with the mock jobs, and the load merges those
LoadFails(request) ==
    /\ request \in api.pending
    /\ api' = [api EXCEPT !.pending = @ \ {request}]
    /\ LoadedInto(request, IF api.cache # Null THEN api.cache[1]
                           ELSE MockStoreJobs(now))

(***************************************************************************)
(* SpecLoad: the recruiter adds, edits and deletes jobs while loads are in *)
(* flight.                                                                 *)
(***************************************************************************)
FetchedJobs == { <<JobA, JobB>>, <<JobB>> }

NextLoad ==
    \/ LoadInitialData
    \/ RefreshJobs
    \/ \E request \in 1..(MaxFetch + 1), apiJobs \in FetchedJobs :
          LoadSucceeds(request, apiJobs)
    \/ \E request \in 1..(MaxFetch + 1) : LoadFails(request)
    \/ \E jobData \in {JobData(<<"D", "e", "v">>, TRUE)} : AddJob(jobData)
    \/ \E id \in {GenJobId(1)} : UpdateJob(id, [title |-> <<"q", "a">>])
    \/ \E id \in {GenJobId(1)} : DeleteJob(id)
    \/ Tick

SpecLoad == Init /\ [][NextLoad]_vars

\* C39: when a load completes, allJobs is the jobs its fetch resolved with
\* followed by exactly the current userJobs, whatever was added, edited or
\* deleted while the request was in flight and whatever other load overlaps.
C39_LoadMergesCurrentUserJobs ==
    ret.op = "jobsLoaded" => allJobs = ret.value[1] \o userJobs

\* the second of two overlapping refreshes completes while the first is in
\* flight; of the two jobs posted one was deleted again
C39_Witness ==
    /\ ret.op = "jobsLoaded"
    /\ ret.args = <<2>>
    /\ api.pending = {1}
    /\ nextId = 3
    /\ Len(userJobs) = 1
    /\ userJobs[1].id = GenJobId(2)
    /\ allJobs = <<JobB>> \o userJobs


(***************************************************************************)
(* SpecClear: a store in use, with listeners registered, is cleared.       *)
(***************************************************************************)
NextClear ==
    \/ \E jobs \in {<<JobA, JobB>>} : SetAllJobs(jobs \o userJobs)
    \/ \E role \in {"recruiter"} : SetUserRole(role)
    \/ \E t \in {"dark"} : SetTheme(t)
    \/ \E nf \in {[remoteOnly |-> TRUE]} : SetFilters(nf)
    \/ \E jobData \in {JobData(<<"D", "e", "v">>, TRUE)} : AddJob(jobData)
    \/ \E id \in {"j2"} : ApplyForJob(id, Ann)
    \/ \E id \in {"j1"} : SaveJob(id)
    \/ \E event \in {"dataCleared", "jobsUpdated"}, callback \in {"render"} :
          AddEventListener(event, callback)
    \/ ClearAllData

SpecClear == Init /\ [][NextClear]_vars

\* C40: clearAllData removes all six durable keys and leaves role
\* job_seeker, theme light, the default filters, page 1 and applications,
\* userJobs, savedJobs, allJobs and the filtered view empty; the listeners
\* registered stay registered and exactly one dataCleared is emitted.
C40_ClearResets ==
    [][ret'.op = "clearAllData"
          => /\ \A key \in storageKeys : storage'[key] = Null
             /\ userRole' = "job_seeker"
             /\ theme' = "light"
             /\ filters' = defaultFilters
             /\ currentPage' = 1
             /\ applications' = <<>>
             /\ userJobs' = <<>>
             /\ savedJobs' = <<>>
             /\ allJobs' = <<>>
             /\ filteredJobs' = <<>>
             /\ eventListeners' = eventListeners
             /\ events' = <<Event("dataCleared", Null)>>]_vars

\* a recruiter's store with a dark theme, a filter, a posted job, an
\* application, a saved job and two listeners has just been cleared
C40_Witness ==
    /\ ret.op = "clearAllData"
    /\ nextId = 3
    /\ Len(eventListeners) = 2
    /\ eventListeners[1].event = "dataCleared"
    /\ allJobs = <<>>
    /\ storage = emptyStorage
    /\ events = <<Event("dataCleared", Null)>>
====
